---- MODULE Spec2Model ----
(***************************************************************************)
(* A model of example/passthrough_ll.c: the inode table with its          *)
(* reference counts, the path resolver, the shared-version client and the *)
(* request handlers, run by several worker threads.                       *)
(*                                                                         *)
(* A thread's handler is cut into steps at the points where it touches    *)
(* shared state: a critical section of lo->mutex, a host syscall, a       *)
(* message on the registry socket.  Host syscalls may fail.               *)
(***************************************************************************)
EXTENDS Integers, Sequences, FiniteSets, TLC

\* ------------------------------------------------------------- bounds
NThreads == 2
MaxObj == 3
MaxIno == 4
MaxReqs == 3
SeqReqs == 3
BalReqs == 4
DirReqs == 4
MaxBuf == 2

\* ------------------------------------------------- program constants
FUSE_ROOT_ID == 1
EPERM == 1
ENOENT == 2
EIO == 5
ENOMEM == 12
EACCES == 13
EEXIST == 17
ENOTDIR == 20
EINVAL == 22
ENOSYS == 38
ENOTEMPTY == 39
EOPNOTSUPP == 95
EISDIR == 21
ENOSPC == 28
ENAMETOOLONG == 36

Threads == 1..NThreads
NULL == 0
HeapPtrs == 2..(MaxObj + 1)
RootPtr == MaxObj + 2
Ptrs == HeapPtrs \cup {RootPtr}
Inos == 1..MaxIno
RootIno == 1
Names == {"d", "s"}
Slots == 0..MaxIno

VARIABLES
  norace,          \* lo->norace
  xattr,           \* lo->xattr
  writeback,       \* lo->writeback
  cache,           \* lo->cache
  capable,         \* conn->capable has FUSE_CAP_WRITEBACK_CACHE
  ireg_sock,       \* lo->ireg_sock: -1, or the connected socket
  singlethread,    \* opts.singlethread: fuse_session_loop serves the requests
  mem,             \* the struct lo_inode objects, lo->root included
  lo_inodes,       \* lo->inodes: the objects linked into the hash table
  openfd,          \* the inode objects whose fd is an open descriptor
  version_table,   \* lo->version_table
  hkind,           \* host: the kind of each host inode
  htree,           \* host: directory entries, <<dir, name>> -> inode or 0
  pc,              \* each worker thread's position
  req,             \* each worker thread's request
  loc,             \* each worker thread's local variables
  stack,           \* each worker thread's return positions
  replies,         \* the replies each thread's handler has emitted
  nlookup,         \* kernel side: lookup count held for each handle
  nreq,            \* requests the transport has still to hand out
  gets,            \* registry: GET messages written and not yet answered
  puts,            \* registry: refids of the PUT messages written
  ncalls,          \* history: update_version calls per slot
  dirp,            \* the struct lo_dirp of the open directory stream
  cred,            \* each worker thread's effective uid and gid
  ireg_thread,     \* the thread that runs ireg_do has not returned
  mutex,           \* lo->mutex: 0, or the thread that holds it
  crashed          \* the process has died (failed assertion, invalid free)

vars == <<norace, xattr, writeback, cache, capable, ireg_sock, singlethread, mem, lo_inodes, openfd, version_table,
          hkind, htree, pc, req, loc, stack, replies, nlookup, nreq, gets,
          puts, ncalls, dirp, cred, ireg_thread, mutex, crashed>>

\* ---------------------------------------------------------------- host
\* The host inode a name names under a directory (0: none).
Resolve(dir, name) ==
  IF dir \notin Inos \/ hkind[dir] # "dir" THEN 0
  ELSE IF name = "." THEN dir
  ELSE htree[<<dir, name>>]

\* The first host inode number that is free (0: none).
FreeIno ==
  IF \E i \in Inos : hkind[i] = "free"
  THEN CHOOSE i \in Inos : hkind[i] = "free" /\ \A j \in Inos : hkind[j] = "free" => i <= j
  ELSE 0

IsEmptyDir(d) == \A n \in Names : htree[<<d, n>>] = 0

\* The errno of a failed name resolution.
ResolveErr(dir) ==
  IF dir \in Inos /\ hkind[dir] # "dir" THEN ENOTDIR ELSE ENOENT

\* ------------------------------------------------------- inode objects
FreeInode ==
  [alloc |-> FALSE, fd |-> 0, is_symlink |-> FALSE, key |-> 0,
   refcount |-> 0, version_offset |-> 0, ireg_refid |-> 0]

\* struct lo_inode *lo_inode(req, ino)
lo_inode(ino) == IF ino = FUSE_ROOT_ID THEN RootPtr ELSE ino

\* int lo_fd(req, ino)
lo_fd(ino) == mem[lo_inode(ino)].fd

\* The slot the registry hands out for a host inode.
SlotOf(key) == key

\* setup_root, and get_shared(&lo, &lo.root) of main when the socket is up
RootInode(sock) ==
  [alloc |-> TRUE, fd |-> RootIno, is_symlink |-> FALSE, key |-> RootIno,
   refcount |-> 2,
   version_offset |-> IF sock = -1 THEN 0 ELSE SlotOf(RootIno),
   ireg_refid |-> IF sock = -1 THEN 0 ELSE RootIno]

\* int64_t get_version(lo, inode)
get_version(vt, inode) ==
  IF inode.version_offset = 0 THEN 0 ELSE vt[inode.version_offset]

\* An update_version without the test for version_offset 0.
update_version_any(vt, inode) ==
  [vt EXCEPT ![inode.version_offset] = @ + 1]

\* void update_version(lo, inode): the table after the call
update_version(vt, inode) ==
  IF inode.version_offset = 0 THEN vt
  ELSE [vt EXCEPT ![inode.version_offset] = @ + 1]

RECURSIVE BumpAll(_, _)
\* update_version on each object of the sequence ps, in order
BumpAll(vt, ps) ==
  IF ps = <<>> THEN vt
  ELSE BumpAll(update_version(vt, mem[Head(ps)]), Tail(ps))

RECURSIVE CountAll(_, _)
\* the calls of update_version per slot, after those on ps
CountAll(nc, ps) ==
  IF ps = <<>> THEN nc
  ELSE CountAll([nc EXCEPT ![mem[Head(ps)].version_offset] = @ + 1], Tail(ps))

\* HASH_FIND: the objects of the table with this key
HashFind(key) == {p \in lo_inodes : mem[p].key = key}

\* calloc: a free heap address, NULL when none is left
Calloc == IF \E p \in HeapPtrs : ~mem[p].alloc
          THEN CHOOSE p \in HeapPtrs :
                 ~mem[p].alloc /\ \A q \in HeapPtrs : ~mem[q].alloc => p <= q
          ELSE NULL

\* ------------------------------------------------------- credentials
\* The effective ids the server runs with.
ServerCred == [euid |-> 0, egid |-> 0]

\* fuse_req_ctx(req)->uid and ->gid: the ids of the caller of a request.
CallerCred == [euid |-> 1, egid |-> 1]

\* ----------------------------------------------------------- open flags
\* The access modes, flags & O_ACCMODE.
O_RDONLY == 0
O_WRONLY == 1
O_RDWR == 2

\* The other bits of fi->flags that are told apart; O_TRUNC stands for
\* every bit the handlers do not name.
FlagBits == {"O_CREAT", "O_APPEND", "O_NOFOLLOW", "O_TRUNC"}

\* fi->flags: acc, flags & O_ACCMODE; bits, the other bits that are set.
NoFlags == [acc |-> O_RDONLY, bits |-> {}]

\* The fi->flags of the open requests that are sent.
RequestFlags ==
  [acc : {O_RDONLY, O_WRONLY, O_RDWR},
   bits : {{}, {"O_APPEND"}, {"O_NOFOLLOW", "O_TRUNC"},
           {"O_APPEND", "O_NOFOLLOW", "O_TRUNC"}}]

\* The fi->flags of the create requests that are sent.
CreateFlags ==
  [acc : {O_RDONLY, O_WRONLY, O_RDWR},
   bits : {{}, {"O_NOFOLLOW", "O_TRUNC"}}]

\* lo->cache
CACHE_NONE == "none"
CACHE_AUTO == "auto"
CACHE_ALWAYS == "always"
Caches == {CACHE_NONE, CACHE_AUTO, CACHE_ALWAYS}

\* flags & ~bit
Without(f, bit) == [f EXCEPT !.bits = @ \ {bit}]

\* flags | bit
With(f, bit) == [f EXCEPT !.bits = @ \cup {bit}]

\* Promote O_WRONLY to O_RDWR.
Promote(f) == IF f.acc = O_WRONLY THEN [f EXCEPT !.acc = O_RDWR] ELSE f

\* lo_open: fi->flags when open is called
OpenFlags(f) ==
  LET a == Promote(f)
      b == IF writeback /\ a.acc = O_WRONLY THEN [a EXCEPT !.acc = O_RDWR] ELSE a
  IN IF writeback /\ "O_APPEND" \in b.bits THEN Without(b, "O_APPEND") ELSE b

\* lo_init: the writeback cache is wanted of the kernel
WritebackWanted == writeback /\ capable

\* ------------------------------------------------------ thread locals
NoReq ==
  [op |-> "none", ino |-> 0, parent |-> 0, name |-> "", newparent |-> 0,
   newname |-> "", flags |-> 0, nlookup |-> 0,
   forgets |-> <<>>, size |-> 0, offset |-> 0, times |-> FALSE, fi |-> FALSE,
   fi_flags |-> NoFlags, rstart |-> <<>>, tstart |-> {},
   vstart |-> <<>>]

\* held (history): the file descriptors the handler has opened and the
\* objects it has allocated in this request that it has neither closed or
\* freed nor given to the table or, with its reply, to the client.
NoLoc ==
  [inode |-> NULL, newfd |-> 0, err |-> 0, uptr |-> NULL, ready |-> FALSE,
   oldinode |-> NULL, newinode |-> NULL, spare |-> NULL, i |-> 0,
   p |-> NULL, path |-> "", retries |-> 0, changed |-> FALSE, rem |-> 0,
   buf |-> <<>>, why |-> "none", old |-> ServerCred, hflags |-> NoFlags,
   called |-> FALSE, attempts |-> 0, held |-> 0]

\* What stays of a handler's locals once it has returned.
KeepLoc(l) ==
  [NoLoc EXCEPT !.inode = l.inode, !.oldinode = l.oldinode,
                !.newinode = l.newinode, !.changed = l.changed,
                !.err = l.err, !.buf = l.buf, !.old = l.old,
                !.hflags = l.hflags, !.called = l.called,
                !.p = l.p, !.held = l.held]

\* No directory stream is open.  dir: the host directory; pos: where the
\* host stream stands (the d_off of the entry read last); offset, entry:
\* d->offset and d->entry (0: NULL).  History: follow, every readdir since
\* opendir came with the d_off of the last entry the client had received
\* (0 at first); seen, the d_off of the entries it has received then.
NoDirp == [open |-> FALSE, dir |-> 0, pos |-> 0, offset |-> 0, entry |-> 0,
           follow |-> FALSE, seen |-> <<>>]

\* The handles a request names.
HandlesOf(r) ==
  IF r.op \in {"forget", "forget_multi"} THEN {}
  ELSE {r.ino, r.parent, r.newparent} \ {0}

\* A handle the kernel holds and may send: the root, or one it was given.
Held(h) == h = FUSE_ROOT_ID \/ (h \in HeapPtrs /\ nlookup[h] > 0)

\* A handle some running request names: the kernel keeps its count positive.
InUse(h) == \E t \in Threads : pc[t] # "idle" /\ h \in HandlesOf(req[t])

\* ---------------------------------------------------------------- Init
\* The state after main has set up the session, for the options given.
SetupLoop(noraces, xattrs, socks, reqs, writebacks, caches, capables, single) ==
  /\ singlethread = single
  /\ norace \in noraces
  /\ xattr \in xattrs
  /\ writeback \in writebacks
  /\ cache \in caches
  /\ capable \in capables
  /\ ireg_sock \in socks
  /\ mem = [p \in Ptrs |-> IF p = RootPtr THEN RootInode(ireg_sock) ELSE FreeInode]
  /\ lo_inodes = {}
  /\ openfd = {RootPtr}
  /\ version_table = [s \in Slots |-> 0]
  /\ hkind = [i \in Inos |-> CASE i = 1 -> "dir" [] i = 2 -> "dir"
                               [] i = 3 -> "lnk" [] OTHER -> "free"]
  /\ htree = [e \in Inos \X Names |->
                CASE e = <<1, "d">> -> 2 [] e = <<1, "s">> -> 3 [] OTHER -> 0]
  /\ pc = [t \in Threads |-> "idle"]
  /\ req = [t \in Threads |-> NoReq]
  /\ loc = [t \in Threads |-> NoLoc]
  /\ stack = [t \in Threads |-> <<>>]
  /\ replies = [t \in Threads |-> <<>>]
  /\ nlookup = [h \in HeapPtrs |-> 0]
  /\ nreq = reqs
  /\ gets = {}
  /\ puts = [r \in Slots |-> 0]
  /\ ncalls = [s \in Slots |-> 0]
  /\ dirp = NoDirp
  /\ cred = [t \in Threads |-> ServerCred]
  /\ ireg_thread = (ireg_sock # -1)
  /\ mutex = 0
  /\ crashed = FALSE

\* The state after main has set up a session that fuse_session_loop serves,
\* one request at a time.
SetupOpts(noraces, xattrs, socks, reqs, writebacks, caches, capables) ==
  SetupLoop(noraces, xattrs, socks, reqs, writebacks, caches, capables, TRUE)

\* The state after main has set up the session without the writeback option
\* and with cache=auto, as main has them when no option is given.
Setup(noraces, xattrs, socks, reqs) ==
  SetupOpts(noraces, xattrs, socks, reqs, {FALSE}, {CACHE_AUTO}, {TRUE})

\* The same for a session that fuse_session_loop_mt serves with its worker
\* threads.
SetupMt(noraces, xattrs, socks, reqs) ==
  SetupLoop(noraces, xattrs, socks, reqs, {FALSE}, {CACHE_AUTO}, {TRUE}, FALSE)

\* The runs without the norace option: the path resolver is in use.
Init == Setup({FALSE}, BOOLEAN, {-1, 3}, SeqReqs)

\* ------------------------------------------------------ control flow
Goto(t, l) == pc' = [pc EXCEPT ![t] = l]

\* enter a procedure at position l, to return to position back
Call(t, l, back) ==
  /\ pc' = [pc EXCEPT ![t] = l]
  /\ stack' = [stack EXCEPT ![t] = <<back>> \o @]

\* return from a procedure
Ret(t) ==
  /\ pc' = [pc EXCEPT ![t] = Head(stack[t])]
  /\ stack' = [stack EXCEPT ![t] = Tail(@)]

\* the handler returns to the transport, its locals being l
DoneWith(t, l) ==
  /\ pc' = [pc EXCEPT ![t] = "done"]
  /\ loc' = [loc EXCEPT ![t] = KeepLoc(l)]

Done(t) == DoneWith(t, loc[t])

\* update_version on each object of ps
Bump(ps) ==
  /\ version_table' = BumpAll(version_table, ps)
  /\ ncalls' = CountAll(ncalls, ps)

\* fuse_reply_err(req, e).  why (history): the host call whose failure the
\* error reports: "change", the call that makes the handler's change;
\* "before", a call before it; "later", a call after it; "none", no host call.
FailReply(e, why) ==
  [kind |-> "err", err |-> e, ino |-> 0, version_offset |-> 0, entries |-> <<>>,
   why |-> why, initial_version |-> 0,
   direct_io |-> FALSE, keep_cache |-> FALSE]
ErrReply(e) == FailReply(e, "none")
NoneReply ==
  [kind |-> "none", err |-> 0, ino |-> 0, version_offset |-> 0, entries |-> <<>>,
   why |-> "none", initial_version |-> 0,
   direct_io |-> FALSE, keep_cache |-> FALSE]
DataReply(k) ==
  [kind |-> k, err |-> 0, ino |-> 0, version_offset |-> 0, entries |-> <<>>,
   why |-> "none", initial_version |-> 0,
   direct_io |-> FALSE, keep_cache |-> FALSE]
\* fuse_reply_entry / fuse_reply_create: e.ino is object p, e.version_offset
\* v, e.initial_version iv
EntryReply(k, p, v, iv) ==
  [kind |-> k, err |-> 0, ino |-> p, version_offset |-> v, entries |-> <<>>,
   why |-> "none", initial_version |-> iv,
   direct_io |-> FALSE, keep_cache |-> FALSE]
\* the fuse_entry_param lo_do_lookup has filled in for thread t: the object
\* found or made, its version_offset, and the get_version of it
LookupEntry(t, k) ==
  EntryReply(k, loc[t].inode, mem[loc[t].inode].version_offset,
             get_version(version_table, mem[loc[t].inode]))
\* fuse_reply_open of lo_open: fi->direct_io and fi->keep_cache
OpenReply(d, k) ==
  [DataReply("open") EXCEPT !.direct_io = d, !.keep_cache = k]
\* fuse_reply_buf of a directory buffer: the e.ino of each entry in it
BufReply(es) ==
  [kind |-> "buf", err |-> 0, ino |-> 0, version_offset |-> 0, entries |-> es,
   why |-> "none", initial_version |-> 0,
   direct_io |-> FALSE, keep_cache |-> FALSE]

\* The entries of es that carry handle h.
Count(es, h) == Cardinality({i \in 1..Len(es) : es[i].ino = h})

\* fuse_reply_*: the reply leaves, and the kernel counts the handles of the
\* entries it carries
Reply(t, r) ==
  /\ replies' = [replies EXCEPT ![t] = Append(@, r)]
  /\ nlookup' = [h \in HeapPtrs |->
                  nlookup[h] + Count(r.entries, h)
                  + (IF r.kind \in {"entry", "create"} /\ r.ino = h THEN 1 ELSE 0)]

hostVars == <<hkind, htree>>
options == <<norace, xattr, writeback, cache, capable, ireg_sock, singlethread>>
\* The options, and the mutex: the actions that take lock, critical section
\* and unlock of lo->mutex as one step find it free and leave it free.
optVars == <<options, mutex>>
regVars == <<gets, puts>>
tableVars == <<mem, lo_inodes, openfd>>
verVars == <<version_table, ncalls>>

\* The transport hands thread t a request; of the idle threads the first
\* takes it (the worker threads are alike).
CanReceive(t) ==
  /\ ~crashed
  /\ pc[t] = "idle"
  /\ \A u \in Threads : u < t => pc[u] # "idle"
  /\ singlethread => t = 1
  /\ nreq > 0

\* Thread t takes request r.
Receive(t, r) ==
  /\ CanReceive(t)
  /\ nreq' = nreq - 1
  /\ req' = [req EXCEPT ![t] =
               IF singlethread
               THEN [r EXCEPT !.vstart = version_table,
                              !.rstart = [p \in Ptrs |-> mem[p].refcount],
                              !.tstart = lo_inodes]
               ELSE [r EXCEPT !.vstart = version_table]]

\* Thread t is at position l of its handler.
At(t, l) == ~crashed /\ pc[t] = l

\* The handler has returned: the thread takes the next request.
fuse_session_loop(t) ==
  /\ At(t, "done")
  /\ pc' = [pc EXCEPT ![t] = "idle"]
  /\ req' = [req EXCEPT ![t] = NoReq]
  /\ loc' = [loc EXCEPT ![t] = NoLoc]
  /\ replies' = [replies EXCEPT ![t] = <<>>]
  /\ UNCHANGED <<optVars, ireg_thread, cred, dirp, tableVars, verVars, hostVars, stack, nlookup,
                 nreq, regVars, crashed>>

\* ------------------------------------------------------- unref_inode
\* The refcount of p after unref_inode takes n from it.
UnrefCount(p, n) == mem[p].refcount - n

\* An unref_inode that leaves the inode in the table when it takes the
\* last reference.
unref_inode_keep(t, p, n, back, l) ==
  IF p = NULL
  THEN /\ Goto(t, back)
       /\ loc' = [loc EXCEPT ![t] = l]
       /\ UNCHANGED <<mem, lo_inodes, crashed, stack>>
  ELSE IF mem[p].refcount < n
  THEN /\ crashed' = TRUE
       /\ UNCHANGED <<mem, lo_inodes, pc, stack, loc>>
  ELSE IF UnrefCount(p, n) = 0
  THEN /\ mem' = [mem EXCEPT ![p].refcount = 0]
       /\ UNCHANGED <<lo_inodes, crashed>>
       /\ Call(t, "unref_evict", back)
       /\ loc' = [loc EXCEPT ![t] = [l EXCEPT !.uptr = p]]
  ELSE /\ mem' = [mem EXCEPT ![p].refcount = UnrefCount(p, n)]
       /\ Goto(t, back)
       /\ loc' = [loc EXCEPT ![t] = l]
       /\ UNCHANGED <<lo_inodes, crashed, stack>>

\* unref_inode(lo, inode, n), the part under lo->mutex, then on to position
\* back: at once when references remain, after unref_evict when none does.
\* l is the thread's locals as the caller leaves them.
\* Sets mem, lo_inodes, crashed, pc, stack and loc.
unref_inode(t, p, n, back, l) ==
  IF p = NULL
  THEN /\ Goto(t, back)
       /\ loc' = [loc EXCEPT ![t] = l]
       /\ UNCHANGED <<mem, lo_inodes, crashed, stack>>
  ELSE IF mem[p].refcount < n
  THEN \* assert(inode->refcount >= n): the thread dies at "unref_assert"
       /\ crashed' = TRUE
       /\ Goto(t, "unref_assert")
       /\ UNCHANGED <<mem, lo_inodes, stack, loc>>
  ELSE IF UnrefCount(p, n) = 0
  THEN /\ mem' = [mem EXCEPT ![p].refcount = 0]
       /\ IF p = RootPtr
          THEN \* HASH_DEL of an object that is not in the table
               \/ lo_inodes' = {} /\ crashed' = FALSE
               \/ lo_inodes' = lo_inodes /\ crashed' = TRUE
          ELSE lo_inodes' = lo_inodes \ {p} /\ crashed' = crashed
       /\ Call(t, "unref_evict", back)
       /\ loc' = [loc EXCEPT ![t] = [l EXCEPT !.uptr = p]]
  ELSE /\ mem' = [mem EXCEPT ![p].refcount = UnrefCount(p, n)]
       /\ Goto(t, back)
       /\ loc' = [loc EXCEPT ![t] = l]
       /\ UNCHANGED <<lo_inodes, crashed, stack>>

\* put_shared(lo, inode): the PUT records written, after this call
put_shared(ps, inode, written) ==
  IF ireg_sock = -1 \/ ~written THEN ps
  ELSE [ps EXCEPT ![inode.ireg_refid] = @ + 1]

\* unref_inode, after the mutex is released: close, put_shared, free
unref_evict(t) ==
  /\ At(t, "unref_evict")
  /\ LET p == loc[t].uptr
     IN /\ openfd' = openfd \ {p}
        /\ \E written \in BOOLEAN :
             /\ (ireg_sock = -1 => written)
             /\ puts' = put_shared(puts, mem[p], written)
        /\ IF p = RootPtr
           THEN \* free(&lo->root)
                /\ crashed' = TRUE
                /\ UNCHANGED <<mem, pc, stack, loc>>
           ELSE /\ mem' = [mem EXCEPT ![p] = FreeInode]
                /\ Ret(t)
                /\ loc' = [loc EXCEPT ![t].uptr = NULL]
                /\ UNCHANGED crashed
  /\ UNCHANGED <<optVars, ireg_thread, cred, dirp, lo_inodes, verVars, hostVars, req, replies,
                 nlookup, nreq, gets>>

\* ------------------------------------------------------ lo_do_lookup
\* The errno values openat(dir->fd, name) or the fstatat after it fail with.
OpenErrs(dir, name) ==
  {EACCES} \cup (IF Resolve(mem[dir].fd, name) = 0
                 THEN {ResolveErr(mem[dir].fd)} ELSE {})

\* lo_find(lo, &e->attr) as lo_do_lookup calls it, and close(newfd) on a hit
lo_find(t) ==
  /\ At(t, "lo_find")
  /\ LET hits == HashFind(loc[t].newfd)
     IN IF hits # {}
        THEN \E p \in hits :
               IF mem[p].refcount > 0
               THEN /\ mem' = [mem EXCEPT ![p].refcount = @ + 1]
                    /\ loc' = [loc EXCEPT ![t].inode = p, ![t].newfd = 0]
                    /\ Goto(t, "lo_do_lookup_stat")
                    /\ UNCHANGED crashed
               ELSE \* assert(p->refcount > 0)
                    /\ crashed' = TRUE
                    /\ UNCHANGED <<mem, loc, pc>>
        ELSE /\ Goto(t, "lo_do_lookup_new")
             /\ UNCHANGED <<mem, loc, crashed>>
  /\ UNCHANGED <<optVars, ireg_thread, cred, dirp, lo_inodes, openfd, verVars, hostVars, req, stack,
                 replies, nlookup, nreq, regVars>>

\* An object that keeps the version_offset of what the memory held before.
NewInodeStale(k) ==
  [alloc |-> TRUE, fd |-> k, is_symlink |-> (hkind[k] = "lnk"), key |-> k,
   refcount |-> 1, version_offset |-> SlotOf(k), ireg_refid |-> 0]

\* the object lo_do_lookup fills in after calloc
NewInode(k) ==
  [alloc |-> TRUE, fd |-> k, is_symlink |-> (hkind[k] = "lnk"), key |-> k,
   refcount |-> 1, version_offset |-> 0, ireg_refid |-> 0]

\* lo_do_lookup on a miss: calloc, the new object, and get_shared up to
\* its write of the GET record
lo_do_lookup_new(t) ==
  /\ At(t, "lo_do_lookup_new")
  /\ LET p == Calloc
     IN IF p = NULL
        THEN /\ loc' = [loc EXCEPT ![t].err = ENOMEM, ![t].newfd = 0]
             /\ Ret(t)
             /\ UNCHANGED <<mem, openfd, gets>>
        ELSE /\ mem' = [mem EXCEPT ![p] = NewInode(loc[t].newfd)]
             /\ openfd' = openfd \cup {p}
             /\ loc' = [loc EXCEPT ![t].inode = p, ![t].newfd = 0]
             /\ UNCHANGED stack
             /\ IF ireg_sock = -1
                THEN Goto(t, "lo_do_lookup_add") /\ UNCHANGED gets
                ELSE \/ Goto(t, "get_shared_wait") /\ gets' = gets \cup {t}
                     \/ Goto(t, "lo_do_lookup_add") /\ UNCHANGED gets
  /\ UNCHANGED <<optVars, ireg_thread, cred, dirp, lo_inodes, verVars, hostVars, req, replies, nlookup,
                 nreq, puts, crashed>>

\* An ireg_do that gives the VERSION reply to thread t's GET to whichever
\* caller is waiting.
ireg_do_any(t) ==
  /\ ~crashed
  /\ ireg_thread
  /\ t \in gets
  /\ gets' = gets \ {t}
  /\ \E u \in Threads :
       /\ pc[u] = "get_shared_wait"
       /\ mem' = [mem EXCEPT
                    ![loc[u].inode].version_offset = SlotOf(mem[loc[t].inode].key),
                    ![loc[u].inode].ireg_refid = mem[loc[t].inode].key]
       /\ loc' = [loc EXCEPT ![u].ready = TRUE]
  /\ UNCHANGED <<optVars, ireg_thread, cred, dirp, lo_inodes, openfd, verVars, hostVars, pc, req,
                 stack, replies, nlookup, nreq, puts, crashed>>

\* ireg_do: read() returns the VERSION reply to thread t's GET
ireg_do(t) ==
  /\ ~crashed
  /\ ireg_thread
  /\ t \in gets
  /\ gets' = gets \ {t}
  /\ LET p == loc[t].inode
     IN mem' = [mem EXCEPT ![p].version_offset = SlotOf(mem[p].key),
                           ![p].ireg_refid = mem[p].key]
  /\ loc' = [loc EXCEPT ![t].ready = TRUE]
  /\ UNCHANGED <<optVars, ireg_thread, cred, dirp, lo_inodes, openfd, verVars, hostVars, pc, req,
                 stack, replies, nlookup, nreq, puts, crashed>>

\* ireg_do: read() returns a record that is answer to thread t's GET and is
\* not of the size of a reply, or whose op is not SRV_VERSION: warnx, continue
ireg_do_bad(t) ==
  /\ ~crashed
  /\ ireg_thread
  /\ t \in gets
  /\ gets' = gets \ {t}
  /\ UNCHANGED <<optVars, ireg_thread, cred, dirp, tableVars, verVars, hostVars,
                 pc, req, loc, stack, replies, nlookup, nreq, puts, crashed>>

\* ireg_do: read() returns 0 or -1, the registry has gone: return NULL
ireg_do_exit ==
  /\ ~crashed
  /\ ireg_thread
  /\ ireg_thread' = FALSE
  /\ UNCHANGED <<optVars, cred, dirp, tableVars, verVars, hostVars, pc, req,
                 loc, stack, replies, nlookup, nreq, regVars, crashed>>

\* get_shared: while (sem_wait(&rep.ready));
get_shared_wait(t) ==
  /\ At(t, "get_shared_wait")
  /\ loc[t].ready
  /\ loc' = [loc EXCEPT ![t].ready = FALSE]
  /\ Goto(t, "lo_do_lookup_add")
  /\ UNCHANGED <<optVars, ireg_thread, cred, dirp, tableVars, verVars, hostVars, req, stack, replies,
                 nlookup, nreq, regVars, crashed>>

\* lo_do_lookup: HASH_ADD under lo->mutex
lo_do_lookup_add(t) ==
  /\ At(t, "lo_do_lookup_add")
  /\ lo_inodes' = lo_inodes \cup {loc[t].inode}
  /\ Goto(t, "lo_do_lookup_stat")
  /\ UNCHANGED <<optVars, ireg_thread, cred, dirp, mem, openfd, verVars, hostVars, req, loc, stack,
                 replies, nlookup, nreq, regVars, crashed>>

\* lo_do_lookup when its second fstatat fails: unref_inode(lo, inode, 1),
\* and the errno is returned to the caller
lo_do_lookup_fail(t) ==
  /\ At(t, "lo_do_lookup_stat")
  /\ unref_inode(t, loc[t].inode, 1, "lo_do_lookup_ret",
                 [loc[t] EXCEPT !.err = EIO, !.inode = NULL, !.why = "later"])
  /\ UNCHANGED <<optVars, ireg_thread, cred, dirp, openfd, verVars, hostVars, req, replies, nlookup,
                 nreq, regVars>>

\* lo_do_lookup returns to its caller's position for the case that no entry
\* comes of the lookup
lo_do_lookup_ret(t) ==
  /\ At(t, "lo_do_lookup_ret")
  /\ Ret(t)
  /\ UNCHANGED <<optVars, ireg_thread, cred, dirp, tableVars, verVars, hostVars, req, loc, replies,
                 nlookup, nreq, regVars, crashed>>

\* ---------------------------------------------------------- lo_lookup
\* lo_lookup: the request arrives; openat and fstatat of lo_do_lookup
lo_lookup(t) ==
  /\ CanReceive(t)
  /\ \E parent \in {h \in HeapPtrs \cup {FUSE_ROOT_ID} : Held(h)},
        name \in Names \cup {"."} :
       /\ Receive(t, [NoReq EXCEPT !.op = "lookup", !.parent = parent,
                                   !.name = name])
       /\ \/ /\ Resolve(lo_fd(parent), name) # 0
             /\ loc' = [loc EXCEPT ![t].newfd = Resolve(lo_fd(parent), name)]
             /\ Call(t, "lo_find", "lo_lookup_err")
             /\ UNCHANGED <<replies, nlookup>>
          \/ /\ \E e \in OpenErrs(lo_inode(parent), name) : Reply(t, ErrReply(e))
             /\ Done(t)
             /\ UNCHANGED stack
  /\ UNCHANGED <<optVars, ireg_thread, cred, dirp, tableVars, verVars, hostVars, regVars, crashed>>

\* lo_do_lookup's second fstatat succeeds and lo_lookup replies the entry
lo_lookup_reply(t) ==
  /\ At(t, "lo_do_lookup_stat")
  /\ Head(stack[t]) = "lo_lookup_err"
  /\ Reply(t, LookupEntry(t, "entry"))
  /\ stack' = [stack EXCEPT ![t] = Tail(@)]
  /\ Done(t)
  /\ UNCHANGED <<optVars, ireg_thread, cred, dirp, tableVars, verVars, hostVars, req, nreq, regVars,
                 crashed>>

\* lo_do_lookup returned an error: lo_lookup replies it
lo_lookup_err(t) ==
  /\ At(t, "lo_lookup_err")
  /\ Reply(t, ErrReply(loc[t].err))
  /\ Done(t)
  /\ UNCHANGED <<optVars, ireg_thread, cred, dirp, tableVars, verVars, hostVars, req, stack, nreq,
                 regVars, crashed>>

\* ---------------------------------------------------------- lo_forget
\* lo_forget: the request arrives; lo_forget_one calls unref_inode
lo_forget(t) ==
  /\ CanReceive(t)
  /\ \E h \in HeapPtrs, n \in 1..SeqReqs :
       /\ n <= nlookup[h]
       /\ n < nlookup[h] \/ ~InUse(h)
       /\ Receive(t, [NoReq EXCEPT !.op = "forget", !.ino = h, !.nlookup = n])
       /\ nlookup' = [nlookup EXCEPT ![h] = @ - n]
       /\ unref_inode(t, lo_inode(h), n, "lo_forget_reply", loc[t])
  /\ UNCHANGED <<optVars, ireg_thread, cred, dirp, openfd, verVars, hostVars, replies, regVars>>

\* lo_forget: fuse_reply_none
lo_forget_reply(t) ==
  /\ At(t, "lo_forget_reply")
  /\ Reply(t, NoneReply)
  /\ Done(t)
  /\ UNCHANGED <<optVars, ireg_thread, cred, dirp, tableVars, verVars, hostVars, req, stack, nreq,
                 regVars, crashed>>

\* lo_forget for the root handle, which the protocol forbids
lo_forget_root(t) ==
  /\ CanReceive(t)
  /\ \E n \in 1..2 :
       /\ Receive(t, [NoReq EXCEPT !.op = "forget", !.ino = FUSE_ROOT_ID,
                                   !.nlookup = n])
       /\ unref_inode(t, lo_inode(FUSE_ROOT_ID), n, "lo_forget_reply", loc[t])
  /\ UNCHANGED <<optVars, ireg_thread, cred, dirp, openfd, verVars, hostVars, replies, nlookup, regVars>>

\* ---------------------------------------------------- lo_forget_multi
\* The lookup counts the list fs takes from each handle.
RECURSIVE ForgetSum(_, _)
ForgetSum(fs, h) ==
  IF fs = <<>> THEN 0
  ELSE (IF Head(fs).ino = h THEN Head(fs).nlookup ELSE 0) + ForgetSum(Tail(fs), h)

ForgetLists ==
  LET F == [ino : HeapPtrs, nlookup : 1..2]
  IN {<<f>> : f \in F} \cup {<<f, g>> : f \in F, g \in F}

\* lo_forget_multi: the request arrives
lo_forget_multi(t) ==
  /\ CanReceive(t)
  /\ \E fs \in ForgetLists :
       /\ \A h \in HeapPtrs :
            /\ ForgetSum(fs, h) <= nlookup[h]
            /\ ForgetSum(fs, h) = 0 \/ ForgetSum(fs, h) < nlookup[h] \/ ~InUse(h)
       /\ Receive(t, [NoReq EXCEPT !.op = "forget_multi", !.forgets = fs])
       /\ nlookup' = [h \in HeapPtrs |-> nlookup[h] - ForgetSum(fs, h)]
  /\ loc' = [loc EXCEPT ![t].i = 1]
  /\ Goto(t, "lo_forget_multi_one")
  /\ UNCHANGED <<optVars, ireg_thread, cred, dirp, tableVars, verVars, hostVars, stack, replies,
                 regVars, crashed>>

\* lo_forget_multi: one turn of the loop, lo_forget_one of forgets[i]; after
\* the last one, fuse_reply_none
lo_forget_multi_one(t) ==
  /\ At(t, "lo_forget_multi_one")
  /\ LET i == loc[t].i
     IN IF i <= Len(req[t].forgets)
        THEN /\ unref_inode(t, lo_inode(req[t].forgets[i].ino),
                            req[t].forgets[i].nlookup, "lo_forget_multi_one",
                            [loc[t] EXCEPT !.i = i + 1])
             /\ UNCHANGED <<replies, nlookup>>
        ELSE /\ Reply(t, NoneReply)
             /\ Done(t)
             /\ UNCHANGED <<mem, lo_inodes, stack, crashed>>
  /\ UNCHANGED <<optVars, ireg_thread, cred, dirp, openfd, verVars, hostVars, req, nreq, regVars>>

\* -------------------------------------------------------- lookup_name
\* lookup_name(req, parent, name): the objects it may return; NULL when
\* fstatat fails or lo_find finds nothing
lookup_name(parent, name) ==
  LET k == Resolve(lo_fd(parent), name)
  IN {NULL} \cup (IF k = 0 THEN {} ELSE HashFind(k))

\* A lo_find that returns its hit without a reference on it.
FindNoRef(p) ==
  IF p = NULL \/ mem[p].refcount > 0 THEN UNCHANGED <<mem, crashed>>
  ELSE crashed' = TRUE /\ UNCHANGED mem

\* lo_find's hit on p (none for NULL): assert(p->refcount > 0); p->refcount++
FindRef(p) ==
  IF p = NULL THEN UNCHANGED <<mem, crashed>>
  ELSE IF mem[p].refcount > 0
  THEN mem' = [mem EXCEPT ![p].refcount = @ + 1] /\ UNCHANGED crashed
  ELSE crashed' = TRUE /\ UNCHANGED mem

HeldHandles == {h \in HeapPtrs \cup {FUSE_ROOT_ID} : Held(h)}

\* ------------------------------------------------- lo_unlink, lo_rmdir
\* The errno values unlinkat(dir, name, flags) fails with; it can succeed
\* when only EACCES is among them.
UnlinkErrs(dir, name, rmdir) ==
  LET k == Resolve(dir, name)
  IN {EACCES}
     \cup (IF k = 0 THEN {ResolveErr(dir)} ELSE {})
     \cup (IF k # 0 /\ ~rmdir /\ hkind[k] = "dir" THEN {EISDIR} ELSE {})
     \cup (IF k # 0 /\ rmdir /\ hkind[k] # "dir" THEN {ENOTDIR} ELSE {})
     \cup (IF k # 0 /\ rmdir /\ hkind[k] = "dir" /\ ~IsEmptyDir(k)
           THEN {ENOTEMPTY} ELSE {})

\* lo_unlink / lo_rmdir: the request arrives; lookup_name
lo_unlink(t) ==
  /\ CanReceive(t)
  /\ \E parent \in HeldHandles, name \in Names, op \in {"unlink", "rmdir"} :
       /\ Receive(t, [NoReq EXCEPT !.op = op, !.parent = parent, !.name = name])
       /\ \E p \in lookup_name(parent, name) :
            /\ FindRef(p)
            /\ IF p = NULL
               THEN /\ Reply(t, FailReply(EIO, "before"))
                    /\ Done(t)
               ELSE /\ loc' = [loc EXCEPT ![t].inode = p]
                    /\ Goto(t, "lo_unlink_do")
                    /\ UNCHANGED <<replies, nlookup>>
  /\ UNCHANGED <<optVars, ireg_thread, cred, dirp, lo_inodes, openfd, verVars, hostVars, stack, regVars>>

\* lo_unlink / lo_rmdir: unlinkat, the version updates and the reply
lo_unlink_do(t) ==
  /\ At(t, "lo_unlink_do")
  /\ LET dir == lo_fd(req[t].parent)
         errs == UnlinkErrs(dir, req[t].name, req[t].op = "rmdir")
     IN \/ /\ \E e \in errs : Reply(t, FailReply(e, "change"))
           /\ UNCHANGED <<verVars, hostVars>>
        \/ /\ errs = {EACCES}
           /\ htree' = [htree EXCEPT ![<<dir, req[t].name>>] = 0]
           /\ Bump(<<loc[t].inode, lo_inode(req[t].parent)>>)
           /\ Reply(t, ErrReply(0))
           /\ UNCHANGED hkind
  /\ Goto(t, "lo_unlink_unref")
  /\ UNCHANGED <<optVars, ireg_thread, cred, dirp, tableVars, req, loc, stack, nreq, regVars, crashed>>

\* An unlink / rmdir that returns with its reference on the child.
lo_unlink_keep(t) ==
  /\ At(t, "lo_unlink_unref")
  /\ DoneWith(t, loc[t])
  /\ UNCHANGED <<optVars, ireg_thread, cred, dirp, tableVars, verVars, hostVars, req, replies,
                 nlookup, nreq, regVars, stack, crashed>>

\* lo_unlink / lo_rmdir: unref_inode(lo, inode, 1), and return
lo_unlink_unref(t) ==
  /\ At(t, "lo_unlink_unref")
  /\ unref_inode(t, loc[t].inode, 1, "done", KeepLoc(loc[t]))
  /\ UNCHANGED <<optVars, ireg_thread, cred, dirp, openfd, verVars, hostVars, req, replies, nlookup,
                 nreq, regVars>>

\* ----------------------------------------------------------- lo_rename
RECURSIVE Under(_, _, _)
\* Directory b is directory a or lies below it (n bounds the walk up).
Under(a, b, n) ==
  \/ a = b
  \/ /\ n > 0
     /\ \E d \in Inos, nm \in Names : htree[<<d, nm>>] = b /\ Under(a, d, n - 1)

\* The errno values renameat(od, oname, nd, nname) fails with (noreplace:
\* renameat2 with RENAME_NOREPLACE); it can succeed when only EACCES is
\* among them.
RenameErrs(od, oname, nd, nname, noreplace) ==
  LET src == Resolve(od, oname)
      dst == Resolve(nd, nname)
  IN {EACCES}
     \cup (IF src = 0 THEN {ResolveErr(od)} ELSE {})
     \cup (IF hkind[nd] # "dir" THEN {ENOTDIR} ELSE {})
     \cup (IF src # 0 /\ hkind[src] = "dir" /\ Under(src, nd, MaxIno)
           THEN {EINVAL} ELSE {})
     \cup (IF dst # 0 /\ noreplace THEN {EEXIST} ELSE {})
     \cup (IF src # 0 /\ dst # 0 /\ hkind[src] = "dir" /\ hkind[dst] # "dir"
           THEN {ENOTDIR} ELSE {})
     \cup (IF src # 0 /\ dst # 0 /\ hkind[src] # "dir" /\ hkind[dst] = "dir"
           THEN {EISDIR} ELSE {})
     \cup (IF dst # 0 /\ hkind[dst] = "dir" /\ ~IsEmptyDir(dst)
           THEN {ENOTEMPTY} ELSE {})

\* The directory entries after a successful rename.
Renamed(od, oname, nd, nname) ==
  LET src == Resolve(od, oname)
  IN IF src = Resolve(nd, nname) THEN htree
     ELSE [htree EXCEPT ![<<od, oname>>] = 0, ![<<nd, nname>>] = src]

\* lo_rename: the request arrives; lookup_name of the source
lo_rename(t) ==
  /\ CanReceive(t)
  /\ \E parent \in HeldHandles, name \in Names,
        newparent \in HeldHandles, newname \in Names, flags \in {0, 1} :
       /\ Receive(t, [NoReq EXCEPT !.op = "rename", !.parent = parent,
                        !.name = name, !.newparent = newparent,
                        !.newname = newname, !.flags = flags])
       /\ \E p \in lookup_name(parent, name) :
            /\ FindRef(p)
            /\ loc' = [loc EXCEPT ![t].oldinode = p]
  /\ Goto(t, "lo_rename_new")
  /\ UNCHANGED <<optVars, ireg_thread, cred, dirp, lo_inodes, openfd, verVars, hostVars, stack, replies,
                 nlookup, regVars>>

\* lo_rename: lookup_name of the target
lo_rename_new(t) ==
  /\ At(t, "lo_rename_new")
  /\ \E p \in lookup_name(req[t].newparent, req[t].newname) :
       /\ FindRef(p)
       /\ loc' = [loc EXCEPT ![t].newinode = p]
  /\ Goto(t, "lo_rename_do")
  /\ UNCHANGED <<optVars, ireg_thread, cred, dirp, lo_inodes, openfd, verVars, hostVars, req, stack,
                 replies, nlookup, nreq, regVars>>

\* lo_rename with flags: renameat2, and the reply
lo_rename_flags(t) ==
  LET od == lo_fd(req[t].parent)
      nd == lo_fd(req[t].newparent)
      errs == RenameErrs(od, req[t].name, nd, req[t].newname, TRUE)
  IN \/ \* no SYS_renameat2 in the build, or ENOSYS from the kernel
        /\ Reply(t, ErrReply(EINVAL))
        /\ UNCHANGED <<verVars, hostVars>>
     \/ /\ \E e \in errs : Reply(t, ErrReply(e))
        /\ UNCHANGED <<verVars, hostVars>>
     \/ /\ errs = {EACCES}
        /\ htree' = Renamed(od, req[t].name, nd, req[t].newname)
        /\ Reply(t, ErrReply(0))
        /\ UNCHANGED <<verVars, hkind>>

\* lo_rename without flags: renameat, the version updates and the reply
lo_rename_plain(t) ==
  LET od == lo_fd(req[t].parent)
      nd == lo_fd(req[t].newparent)
      errs == RenameErrs(od, req[t].name, nd, req[t].newname, FALSE)
  IN \/ /\ \E e \in errs : Reply(t, ErrReply(e))
        /\ UNCHANGED <<verVars, hostVars>>
     \/ /\ errs = {EACCES}
        /\ htree' = Renamed(od, req[t].name, nd, req[t].newname)
        /\ Bump(<<loc[t].oldinode>>
                \o (IF loc[t].newinode # NULL THEN <<loc[t].newinode>> ELSE <<>>)
                \o <<lo_inode(req[t].parent), lo_inode(req[t].newparent)>>)
        /\ Reply(t, ErrReply(0))
        /\ UNCHANGED hkind

\* A lo_rename that returns right after the EIO reply for a missing source,
\* without the calls of unref_inode at out.
lo_rename_return(t) ==
  /\ At(t, "lo_rename_do")
  /\ IF loc[t].oldinode = NULL
     THEN /\ Reply(t, ErrReply(EIO))
          /\ UNCHANGED <<verVars, hostVars>>
          /\ Done(t)
     ELSE /\ IF req[t].flags # 0 THEN lo_rename_flags(t) ELSE lo_rename_plain(t)
          /\ Goto(t, "lo_rename_unref_old") /\ UNCHANGED loc
  /\ UNCHANGED <<optVars, ireg_thread, cred, dirp, tableVars, req, stack, nreq, regVars, crashed>>

\* lo_rename: the rename itself
lo_rename_do(t) ==
  /\ At(t, "lo_rename_do")
  /\ IF loc[t].oldinode = NULL
     THEN /\ Reply(t, ErrReply(EIO))
          /\ UNCHANGED <<verVars, hostVars>>
     ELSE IF req[t].flags # 0
     THEN lo_rename_flags(t)
     ELSE lo_rename_plain(t)
  /\ \* out: unref_inode returns at once for NULL
     IF loc[t].oldinode # NULL
     THEN Goto(t, "lo_rename_unref_old") /\ UNCHANGED loc
     ELSE IF loc[t].newinode # NULL
     THEN Goto(t, "lo_rename_unref_new") /\ UNCHANGED loc
     ELSE Done(t)
  /\ UNCHANGED <<optVars, ireg_thread, cred, dirp, tableVars, req, stack, nreq, regVars, crashed>>

\* lo_rename: unref_inode(lo, oldinode, 1)
lo_rename_unref_old(t) ==
  /\ At(t, "lo_rename_unref_old")
  /\ unref_inode(t, loc[t].oldinode, 1,
                 IF loc[t].newinode # NULL THEN "lo_rename_unref_new" ELSE "done",
                 IF loc[t].newinode # NULL THEN loc[t] ELSE KeepLoc(loc[t]))
  /\ UNCHANGED <<optVars, ireg_thread, cred, dirp, openfd, verVars, hostVars, req, replies, nlookup,
                 nreq, regVars>>

\* lo_rename: unref_inode(lo, newinode, 1), and return
lo_rename_unref_new(t) ==
  /\ At(t, "lo_rename_unref_new")
  /\ unref_inode(t, loc[t].newinode, 1, "done", KeepLoc(loc[t]))
  /\ UNCHANGED <<optVars, ireg_thread, cred, dirp, openfd, verVars, hostVars, req, replies, nlookup,
                 nreq, regVars>>

\* ----------------------------------------- lo_do_lookup for the others
\* lo_do_lookup(req, parent, name, e), its openat and first fstatat, as the
\* handlers other than lo_lookup call it: on to lo_find, or back to the
\* caller's position back with the errno.  l: the caller's locals.
lo_do_lookup(t, parent, name, back, l) ==
  \/ /\ Resolve(lo_fd(parent), name) # 0
     /\ loc' = [loc EXCEPT ![t] = [l EXCEPT !.newfd = Resolve(lo_fd(parent), name)]]
     /\ Call(t, "lo_find", back)
  \/ /\ \E e \in OpenErrs(lo_inode(parent), name) :
          loc' = [loc EXCEPT ![t] = [l EXCEPT !.err = e, !.why = "later"]]
     /\ Goto(t, back)
     /\ UNCHANGED stack

\* ---------------------------------------------------- lo_mknod_symlink
\* The kind of host object each of the three requests makes.
KindOf(op) == CASE op = "mkdir" -> "dir" [] op = "symlink" -> "lnk" [] OTHER -> "reg"

\* The errno values mkdirat / symlinkat / mknodat(dir, name) fail with; they
\* can succeed when only EACCES is among them.
MknodErrs(dir, name) ==
  {EACCES}
  \cup (IF hkind[dir] # "dir" THEN {ENOTDIR} ELSE {})
  \cup (IF Resolve(dir, name) # 0 THEN {EEXIST} ELSE {})
  \cup (IF FreeIno = 0 THEN {ENOSPC} ELSE {})

\* The errno lo_change_cred returns when setresgid or setresuid fails.
ChangeCredErrs == {EPERM}

\* lo_change_cred(req, &old) of thread t fails: the effective ids after it.
\* setresgid fails; or setresuid fails and the setresgid that is to put the
\* gid back succeeds, or fails, which is not looked at.
ChangeCredFails(t) ==
  {cred[t], [cred[t] EXCEPT !.egid = CallerCred.egid]}

\* lo_restore_cred(&old) of thread t fails, err(1, ...): the effective ids
\* the process dies with.  setresuid fails, or setresgid after it.
RestoreCredFails(t) ==
  {cred[t], [cred[t] EXCEPT !.euid = loc[t].old.euid]}

\* lo_mknod / lo_mkdir / lo_symlink: the request arrives; calloc and
\* lo_change_cred.  The calloc'ed object is freed at out only.
lo_mknod_symlink(t) ==
  /\ CanReceive(t)
  /\ \E parent \in HeldHandles, name \in Names, op \in {"mknod", "mkdir", "symlink"} :
       /\ Receive(t, [NoReq EXCEPT !.op = op, !.parent = parent, !.name = name])
       /\ \/ \* calloc fails
             /\ Reply(t, ErrReply(ENOMEM))
             /\ DoneWith(t, [loc[t] EXCEPT !.old = cred[t]])
             /\ UNCHANGED cred
          \/ \* lo_change_cred fails
             /\ \E e \in ChangeCredErrs : Reply(t, FailReply(e, "before"))
             /\ DoneWith(t, [loc[t] EXCEPT !.old = cred[t]])
             /\ \E c \in ChangeCredFails(t) : cred' = [cred EXCEPT ![t] = c]
          \/ /\ cred' = [cred EXCEPT ![t] = CallerCred]
             /\ loc' = [loc EXCEPT ![t].old = cred[t], ![t].held = 1]
             /\ Goto(t, "lo_mknod_call")
             /\ UNCHANGED <<replies, nlookup>>
  /\ UNCHANGED <<optVars, ireg_thread, dirp, tableVars, verVars, hostVars, stack, regVars,
                 crashed>>

\* lo_mknod_symlink: mkdirat, symlinkat or mknodat, lo_restore_cred, and
\* update_version of the parent
lo_mknod_call(t) ==
  /\ At(t, "lo_mknod_call")
  /\ LET parent == req[t].parent
         name == req[t].name
         dir == lo_fd(parent)
         errs == MknodErrs(dir, name)
         made == /\ errs = {EACCES}
                 /\ hkind' = [hkind EXCEPT ![FreeIno] = KindOf(req[t].op)]
                 /\ htree' = [htree EXCEPT ![<<dir, name>>] = FreeIno]
     IN \/ \* the host call fails; out: free(inode)
           /\ \E e \in errs : Reply(t, FailReply(e, "change"))
           /\ cred' = [cred EXCEPT ![t] = loc[t].old]
           /\ DoneWith(t, [loc[t] EXCEPT !.held = 0])
           /\ UNCHANGED <<verVars, hostVars, crashed>>
        \/ \* lo_restore_cred fails: err(1, ...)
           /\ made \/ UNCHANGED hostVars
           /\ \E c \in RestoreCredFails(t) : cred' = [cred EXCEPT ![t] = c]
           /\ crashed' = TRUE
           /\ UNCHANGED <<verVars, pc, loc, replies, nlookup>>
        \/ /\ made
           /\ cred' = [cred EXCEPT ![t] = loc[t].old]
           /\ Bump(<<lo_inode(parent)>>)
           /\ Goto(t, "lo_mknod_lookup")
           /\ UNCHANGED <<loc, replies, nlookup, crashed>>
  /\ UNCHANGED <<optVars, ireg_thread, dirp, tableVars, req, nreq, stack, regVars>>

\* lo_mknod_symlink: lo_do_lookup
lo_mknod_lookup(t) ==
  /\ At(t, "lo_mknod_lookup")
  /\ lo_do_lookup(t, req[t].parent, req[t].name, "lo_mknod_err", loc[t])
  /\ UNCHANGED <<optVars, ireg_thread, cred, dirp, tableVars, verVars, hostVars, req, replies,
                 nlookup, nreq, regVars, crashed>>

\* lo_mknod_symlink: lo_do_lookup returned 0, fuse_reply_entry
lo_mknod_reply(t) ==
  /\ At(t, "lo_do_lookup_stat")
  /\ Head(stack[t]) = "lo_mknod_err"
  /\ Reply(t, LookupEntry(t, "entry"))
  /\ stack' = [stack EXCEPT ![t] = Tail(@)]
  /\ Done(t)
  /\ UNCHANGED <<optVars, ireg_thread, cred, dirp, tableVars, verVars, hostVars, req, nreq,
                 regVars, crashed>>

\* lo_mknod_symlink: lo_do_lookup returned an error; out: free, reply
lo_mknod_err(t) ==
  /\ At(t, "lo_mknod_err")
  /\ Reply(t, FailReply(loc[t].err, loc[t].why))
  /\ DoneWith(t, [loc[t] EXCEPT !.held = 0])
  /\ UNCHANGED <<optVars, ireg_thread, cred, dirp, tableVars, verVars, hostVars, req, stack, nreq,
                 regVars, crashed>>

\* ----------------------------------------------------------- lo_create
\* The errno values openat(dir, name, flags | O_CREAT) fails with; it can
\* succeed when only EACCES is among them.
CreateErrs(dir, name) ==
  LET k == Resolve(dir, name)
  IN {EACCES}
     \cup (IF hkind[dir] # "dir" THEN {ENOTDIR} ELSE {})
     \cup (IF k # 0 /\ hkind[k] = "dir" THEN {EISDIR} ELSE {})
     \cup (IF k # 0 /\ hkind[k] = "lnk" THEN {ENOENT} ELSE {})
     \cup (IF k = 0 /\ hkind[dir] = "dir" /\ FreeIno = 0 THEN {ENOSPC} ELSE {})

\* lo_create: the request arrives; lo_change_cred, openat, lo_restore_cred,
\* update_version of the parent
lo_create(t) ==
  /\ CanReceive(t)
  /\ \E parent \in HeldHandles, name \in Names, flags \in CreateFlags :
       /\ Receive(t, [NoReq EXCEPT !.op = "create", !.parent = parent,
                                   !.name = name, !.fi_flags = flags])
       /\ \/ \* lo_change_cred fails
             /\ \E e \in ChangeCredErrs : Reply(t, FailReply(e, "before"))
             /\ DoneWith(t, [loc[t] EXCEPT !.old = cred[t]])
             /\ \E c \in ChangeCredFails(t) : cred' = [cred EXCEPT ![t] = c]
          \/ /\ cred' = [cred EXCEPT ![t] = CallerCred]
             /\ loc' = [loc EXCEPT ![t].old = cred[t]]
             /\ Goto(t, "lo_create_call")
             /\ UNCHANGED <<replies, nlookup>>
  /\ UNCHANGED <<optVars, ireg_thread, dirp, tableVars, verVars, hostVars, stack, regVars,
                 crashed>>

\* lo_create: openat with O_CREAT, lo_restore_cred, and update_version of
\* the parent
lo_create_call(t) ==
  /\ At(t, "lo_create_call")
  /\ LET parent == req[t].parent
         name == req[t].name
         dir == lo_fd(parent)
         errs == CreateErrs(dir, name)
         k == Resolve(dir, name)
         hflags == Without(With(Promote(req[t].fi_flags), "O_CREAT"), "O_NOFOLLOW")
         made == /\ errs = {EACCES}
                 /\ IF k = 0
                    THEN /\ hkind' = [hkind EXCEPT ![FreeIno] = "reg"]
                         /\ htree' = [htree EXCEPT ![<<dir, name>>] = FreeIno]
                    ELSE UNCHANGED hostVars
     IN \/ \* openat fails
           /\ \E e \in errs : Reply(t, FailReply(e, "change"))
           /\ cred' = [cred EXCEPT ![t] = loc[t].old]
           /\ DoneWith(t, [loc[t] EXCEPT !.hflags = hflags])
           /\ UNCHANGED <<verVars, hostVars, crashed>>
        \/ \* lo_restore_cred fails: err(1, ...)
           /\ made \/ UNCHANGED hostVars
           /\ \E c \in RestoreCredFails(t) : cred' = [cred EXCEPT ![t] = c]
           /\ crashed' = TRUE
           /\ loc' = [loc EXCEPT ![t].hflags = hflags]
           /\ UNCHANGED <<verVars, pc, replies, nlookup>>
        \/ /\ made
           /\ cred' = [cred EXCEPT ![t] = loc[t].old]
           /\ Bump(<<lo_inode(parent)>>)
           /\ Goto(t, "lo_create_lookup")
           /\ loc' = [loc EXCEPT ![t].hflags = hflags, ![t].held = 1]
           /\ UNCHANGED <<replies, nlookup, crashed>>
  /\ UNCHANGED <<optVars, ireg_thread, dirp, tableVars, req, nreq, stack, regVars>>

\* lo_create: lo_do_lookup
lo_create_lookup(t) ==
  /\ At(t, "lo_create_lookup")
  /\ lo_do_lookup(t, req[t].parent, req[t].name, "lo_create_err", loc[t])
  /\ UNCHANGED <<optVars, ireg_thread, cred, dirp, tableVars, verVars, hostVars, req, replies,
                 nlookup, nreq, regVars, crashed>>

\* lo_create: lo_do_lookup returned 0, fuse_reply_create
lo_create_reply(t) ==
  /\ At(t, "lo_do_lookup_stat")
  /\ Head(stack[t]) = "lo_create_err"
  /\ Reply(t, LookupEntry(t, "create"))
  /\ stack' = [stack EXCEPT ![t] = Tail(@)]
  /\ DoneWith(t, [loc[t] EXCEPT !.held = 0])
  /\ UNCHANGED <<optVars, ireg_thread, cred, dirp, tableVars, verVars, hostVars, req, nreq,
                 regVars, crashed>>

\* lo_create: lo_do_lookup returned an error, fuse_reply_err
lo_create_err(t) ==
  /\ At(t, "lo_create_err")
  /\ Reply(t, FailReply(loc[t].err, loc[t].why))
  /\ Done(t)
  /\ UNCHANGED <<optVars, ireg_thread, cred, dirp, tableVars, verVars, hostVars, req, stack, nreq,
                 regVars, crashed>>

\* -------------------------------------------------- lo_parent_and_name
\* The directory entries that name host inode k.
EntriesOf(k) == {e \in Inos \X Names : htree[e] = k}

\* lo_parent_and_name, from retry (history: loc.attempts counts the times
\* it was here): readlink of /proc/self/fd/N, and the
\* parent: lo->root with one more reference when the path has one component,
\* else fstatat of the parent path and lo_find.  loc.inode is the inode,
\* loc.retries the retries left.
lo_parent_and_name(t) ==
  /\ At(t, "lpn_retry")
  /\ LET k == mem[loc[t].inode].key
         l == [loc[t] EXCEPT !.attempts = @ + 1]
     IN \/ \* readlink fails or overflows: fail_noretry
           /\ loc' = [loc EXCEPT ![t] = [l EXCEPT !.err = EIO]]
           /\ Ret(t)
           /\ UNCHANGED <<mem, crashed>>
        \/ \* the path names no object any more, or fstatat of the parent fails
           /\ loc' = [loc EXCEPT ![t] = l]
           /\ Goto(t, "lpn_fail")
           /\ UNCHANGED <<mem, crashed, stack>>
        \/ \E e \in EntriesOf(k) :
             IF e[1] = RootIno
             THEN /\ mem' = [mem EXCEPT ![RootPtr].refcount = @ + 1]
                  /\ loc' = [loc EXCEPT ![t] = [l EXCEPT !.p = RootPtr, !.path = e[2]]]
                  /\ Goto(t, "lpn_last")
                  /\ UNCHANGED <<crashed, stack>>
             ELSE IF HashFind(e[1]) = {}
             THEN /\ loc' = [loc EXCEPT ![t] = l]
                  /\ Goto(t, "lpn_fail")
                  /\ UNCHANGED <<mem, crashed, stack>>
             ELSE \E p \in HashFind(e[1]) :
                    /\ FindRef(p)
                    /\ loc' = [loc EXCEPT ![t] = [l EXCEPT !.p = p, !.path = e[2]]]
                    /\ Goto(t, "lpn_last")
                    /\ UNCHANGED stack
  /\ UNCHANGED <<optVars, ireg_thread, cred, dirp, lo_inodes, openfd, verVars, hostVars, req,
                 replies, nlookup, nreq, regVars>>

\* lo_parent_and_name: fstatat(p->fd, last) and the comparison with the
\* inode's key; return 0, or fail_unref
lo_parent_and_name_last(t) ==
  /\ At(t, "lpn_last")
  /\ \/ /\ Resolve(mem[loc[t].p].fd, loc[t].path) = mem[loc[t].inode].key
        /\ loc' = [loc EXCEPT ![t].err = 0]
        /\ Ret(t)
        /\ UNCHANGED <<mem, lo_inodes, crashed>>
     \/ unref_inode(t, loc[t].p, 1, "lpn_fail", [loc[t] EXCEPT !.p = NULL])
  /\ UNCHANGED <<optVars, ireg_thread, cred, dirp, openfd, verVars, hostVars, req, replies,
                 nlookup, nreq, regVars>>

\* A resolver that retries without counting.
lo_parent_and_name_again(t) ==
  /\ At(t, "lpn_fail")
  /\ Goto(t, "lpn_retry")
  /\ UNCHANGED <<optVars, ireg_thread, cred, dirp, tableVars, verVars, hostVars, req, replies,
                 nlookup, nreq, regVars, crashed, loc, stack>>

\* lo_parent_and_name, at fail: retry while retries are left, else EIO
lo_parent_and_name_fail(t) ==
  /\ At(t, "lpn_fail")
  /\ IF loc[t].retries > 0
     THEN /\ loc' = [loc EXCEPT ![t].retries = @ - 1]
          /\ Goto(t, "lpn_retry")
          /\ UNCHANGED stack
     ELSE /\ loc' = [loc EXCEPT ![t].err = EIO]
          /\ Ret(t)
  /\ UNCHANGED <<optVars, ireg_thread, cred, dirp, tableVars, verVars, hostVars, req, replies,
                 nlookup, nreq, regVars, crashed>>

\* -------------------------------------------------------------- lo_link
\* A server that takes the fallback whatever the norace option says.
NoraceIgnored == FALSE

\* A server that takes the fallback when the norace option is set.
NoraceInverted == ~norace

\* lo->norace, as utimensat_empty and linkat_empty_nofollow read it when the
\* call with AT_EMPTY_PATH has failed on a symlink
NoraceSet == norace

\* The errno values linkat of host inode k to (dir, name) fails with; it can
\* succeed when only EACCES is among them.
LinkErrs(k, dir, name) ==
  {EACCES}
  \cup (IF k = 0 THEN {ENOENT} ELSE {})
  \cup (IF dir \notin Inos \/ hkind[dir] # "dir" THEN {ENOTDIR} ELSE {})
  \cup (IF Resolve(dir, name) # 0 THEN {EEXIST} ELSE {})
  \cup (IF k # 0 /\ hkind[k] = "dir" THEN {EPERM} ELSE {})

\* lo_link after linkat was given host inode k, for request r: on success
\* fstatat, inode->refcount++ under the mutex, update_version of the inode and
\* of the parent, and fuse_reply_entry with e.version_offset left 0; on
\* failure out_err.
LinkEnd(t, r, k) ==
  LET inode == lo_inode(r.ino)
      dir == lo_fd(r.parent)
      errs == LinkErrs(k, dir, r.name)
  IN \/ /\ \E e \in errs : Reply(t, FailReply(e, "change"))
        /\ UNCHANGED <<mem, verVars, hostVars>>
     \/ /\ errs = {EACCES}
        /\ htree' = [htree EXCEPT ![<<dir, r.name>>] = k]
        /\ UNCHANGED hkind
        /\ \/ \* fstatat fails
              /\ Reply(t, FailReply(EACCES, "later"))
              /\ UNCHANGED <<mem, verVars>>
           \/ /\ mem' = [mem EXCEPT ![inode].refcount = @ + 1]
              /\ Bump(<<inode, lo_inode(r.parent)>>)
              /\ Reply(t, EntryReply("entry", inode, 0, 0))

\* lo_link: the request arrives; linkat_empty_nofollow, up to fallback
lo_link(t) ==
  /\ CanReceive(t)
  /\ \E ino \in HeldHandles, parent \in HeldHandles, name \in Names :
       LET r == [NoReq EXCEPT !.op = "link", !.ino = ino, !.parent = parent,
                              !.name = name]
           inode == lo_inode(ino)
       IN /\ Receive(t, r)
          /\ \/ /\ LinkEnd(t, r, mem[inode].key)
                /\ DoneWith(t, [loc[t] EXCEPT !.inode = inode])
                /\ UNCHANGED stack
             \/ \* linkat with AT_EMPTY_PATH fails with ENOENT or EINVAL
                /\ mem[inode].is_symlink
                /\ IF NoraceSet
                   THEN /\ Reply(t, FailReply(EPERM, "change"))
                        /\ DoneWith(t, [loc[t] EXCEPT !.inode = inode])
                        /\ UNCHANGED stack
                   ELSE /\ loc' = [loc EXCEPT ![t].inode = inode, ![t].retries = 2]
                        /\ Call(t, "lpn_retry", "lo_link_fallback")
                        /\ UNCHANGED <<replies, nlookup>>
                /\ UNCHANGED <<mem, verVars, hostVars>>
  /\ UNCHANGED <<optVars, ireg_thread, cred, dirp, lo_inodes, openfd, regVars, crashed>>

\* linkat_empty_nofollow at fallback, after lo_parent_and_name: linkat by
\* parent->fd and path; the parent reference is not released
lo_link_fallback(t) ==
  /\ At(t, "lo_link_fallback")
  /\ IF loc[t].err # 0
     THEN /\ Reply(t, FailReply(EIO, "before"))
          /\ UNCHANGED <<mem, verVars, hostVars>>
     ELSE LinkEnd(t, req[t], Resolve(mem[loc[t].p].fd, loc[t].path))
  /\ Done(t)
  /\ UNCHANGED <<optVars, ireg_thread, cred, dirp, lo_inodes, openfd, req, stack, nreq, regVars,
                 crashed>>

\* ----------------------------------------------------------- lo_setattr
ValidSets == SUBSET {"mode", "owner", "size", "times"}

\* The order in which lo_setattr takes the attribute groups.
Rank(g) == CASE g = "mode" -> 1 [] g = "owner" -> 2 [] g = "size" -> 3 [] OTHER -> 4

\* An end of lo_setattr that leaves update_version out.
SetattrEndNoBump(t, l, ok, e) ==
  /\ IF ok
     THEN Reply(t, DataReply("attr")) \/ Reply(t, FailReply(EACCES, "later"))
     ELSE Reply(t, FailReply(e, "change"))
  /\ UNCHANGED verVars
  /\ DoneWith(t, l)

\* The end of lo_setattr with locals l.  ok: update_version and lo_getattr,
\* whose fstatat may fail; else out_err with errno e.
SetattrEnd(t, l, ok, e) ==
  /\ IF ok
     THEN /\ Bump(<<l.inode>>)
          /\ Reply(t, DataReply("attr")) \/ Reply(t, FailReply(EACCES, "later"))
     ELSE /\ Reply(t, FailReply(e, "change"))
          /\ UNCHANGED verVars
  /\ DoneWith(t, l)

\* lo_setattr: the request arrives; chmod, fchownat, truncate and the
\* utimens call, up to the fallback of utimensat_empty
lo_setattr(t) ==
  /\ CanReceive(t)
  /\ \E ino \in HeldHandles, valid \in ValidSets, fi \in BOOLEAN :
       LET inode == lo_inode(ino)
           first == valid \ {"times"}
           l == [loc[t] EXCEPT !.inode = inode, !.changed = (first # {})]
           lt == [l EXCEPT !.changed = TRUE]
       IN /\ Receive(t, [NoReq EXCEPT !.op = "setattr", !.ino = ino,
                                      !.times = ("times" \in valid),
                                      !.fi = fi])
          /\ \/ \* the call for a group before the times fails
                /\ \E g \in first :
                     SetattrEnd(t, [l EXCEPT !.changed =
                                      (\E h \in first : Rank(h) < Rank(g))],
                                FALSE, EACCES)
                /\ UNCHANGED stack
             \/ /\ "times" \notin valid
                /\ SetattrEnd(t, l, TRUE, 0)
                /\ UNCHANGED stack
             \/ \* futimens, or utimensat by /proc path or AT_EMPTY_PATH
                /\ "times" \in valid
                /\ SetattrEnd(t, lt, TRUE, 0) \/ SetattrEnd(t, l, FALSE, EACCES)
                /\ UNCHANGED stack
             \/ \* utimensat with AT_EMPTY_PATH on a symlink fails with EINVAL
                /\ "times" \in valid /\ ~fi /\ mem[inode].is_symlink
                /\ IF NoraceSet
                   THEN /\ SetattrEnd(t, l, FALSE, EPERM)
                        /\ UNCHANGED stack
                   ELSE /\ loc' = [loc EXCEPT ![t] = [l EXCEPT !.retries = 2]]
                        /\ Call(t, "lpn_retry", "lo_setattr_fallback")
                        /\ UNCHANGED <<verVars, replies, nlookup>>
  /\ UNCHANGED <<optVars, ireg_thread, cred, dirp, tableVars, hostVars, regVars, crashed>>

\* utimensat_empty at fallback, after lo_parent_and_name: utimensat by
\* parent->fd and path; the parent reference is not released
lo_setattr_fallback(t) ==
  /\ At(t, "lo_setattr_fallback")
  /\ IF loc[t].err # 0
     THEN SetattrEnd(t, loc[t], FALSE, EIO)
     ELSE \/ /\ Resolve(mem[loc[t].p].fd, loc[t].path) # 0
             /\ SetattrEnd(t, [loc[t] EXCEPT !.changed = TRUE], TRUE, 0)
          \/ SetattrEnd(t, loc[t], FALSE, EACCES)
  /\ UNCHANGED <<optVars, ireg_thread, cred, dirp, tableVars, hostVars, req, stack, nreq, regVars,
                 crashed>>

\* ------------------------------------ handlers of one host call each
\* A handler that takes request r, replies one of the replies rs and
\* returns; bump: the objects it calls update_version on first.
OneStep(t, r, rs, bump) ==
  /\ Receive(t, r)
  /\ \E x \in rs : Reply(t, x)
  /\ Bump(bump)
  /\ DoneWith(t, [loc[t] EXCEPT !.inode = lo_inode(r.ino)])
  /\ UNCHANGED <<optVars, ireg_thread, cred, dirp, tableVars, hostVars, stack, regVars, crashed>>

\* A request r that names the handle ino only.
OnIno(op, ino) == [NoReq EXCEPT !.op = op, !.ino = ino]

\* lo_getattr: fstatat
lo_getattr(t) ==
  \E ino \in HeldHandles :
    OneStep(t, OnIno("getattr", ino), {DataReply("attr"), ErrReply(EACCES)}, <<>>)

\* lo_readlink: readlinkat
lo_readlink(t) ==
  \E ino \in HeldHandles :
    OneStep(t, OnIno("readlink", ino),
            IF mem[lo_inode(ino)].is_symlink
            THEN {DataReply("readlink"), ErrReply(ENAMETOOLONG), ErrReply(EACCES)}
            ELSE {ErrReply(EINVAL)}, <<>>)

\* lo_open: open of /proc/self/fd/N.  History: hflags, the flags open was
\* given.
lo_open(t) ==
  \E ino \in HeldHandles, flags \in RequestFlags :
    /\ Receive(t, [OnIno("open", ino) EXCEPT !.fi_flags = flags])
    /\ \/ Reply(t, ErrReply(EACCES))
       \/ Reply(t, OpenReply(cache = CACHE_NONE, cache = CACHE_ALWAYS))
    /\ DoneWith(t, [loc[t] EXCEPT !.inode = lo_inode(ino),
                                  !.hflags = Without(OpenFlags(flags), "O_NOFOLLOW")])
    /\ UNCHANGED <<optVars, ireg_thread, cred, dirp, tableVars, verVars,
                   hostVars, stack, regVars, crashed>>

\* lo_release: close
lo_release(t) ==
  \E ino \in HeldHandles :
    OneStep(t, OnIno("release", ino), {ErrReply(0)}, <<>>)

\* lo_flush: close(dup(fi->fh))
lo_flush(t) ==
  \E ino \in HeldHandles :
    OneStep(t, OnIno("flush", ino), {ErrReply(0), ErrReply(EIO)}, <<>>)

\* lo_fsync: with no fi, asprintf and open first
lo_fsync(t) ==
  \E ino \in HeldHandles, fi \in BOOLEAN :
    OneStep(t, OnIno("fsync", ino),
            {ErrReply(0), ErrReply(EIO)}
              \cup (IF fi THEN {} ELSE {ErrReply(ENOMEM), ErrReply(EACCES)}), <<>>)

\* lo_read: fuse_reply_data
lo_read(t) ==
  \E ino \in HeldHandles :
    OneStep(t, OnIno("read", ino), {DataReply("data")}, <<>>)

\* lo_statfs: fstatvfs
lo_statfs(t) ==
  \E ino \in HeldHandles :
    OneStep(t, OnIno("statfs", ino), {DataReply("statfs"), ErrReply(EIO)}, <<>>)

\* lo_flock: flock
lo_flock(t) ==
  \E ino \in HeldHandles :
    OneStep(t, OnIno("flock", ino), {ErrReply(0), ErrReply(EACCES)}, <<>>)

\* lo_write_buf: fuse_buf_copy; update_version when it succeeds
lo_write_buf(t) ==
  \E ino \in HeldHandles :
    \/ OneStep(t, OnIno("write_buf", ino), {FailReply(EIO, "change")}, <<>>)
    \/ OneStep(t, OnIno("write_buf", ino), {DataReply("write")}, <<lo_inode(ino)>>)

\* lo_fallocate: EOPNOTSUPP for a mode; else posix_fallocate, and
\* update_version when it succeeds
lo_fallocate(t) ==
  \E ino \in HeldHandles, mode \in {0, 1} :
    LET r == [OnIno("fallocate", ino) EXCEPT !.flags = mode]
    IN IF mode # 0
       THEN OneStep(t, r, {ErrReply(EOPNOTSUPP)}, <<>>)
       ELSE \/ OneStep(t, r, {FailReply(ENOSPC, "change")}, <<>>)
            \/ OneStep(t, r, {ErrReply(0)}, <<lo_inode(ino)>>)

\* The four xattr handlers with the test for a symlink before the test for
\* xattr support.
XattrRejectSymlink(ino) ==
  IF mem[lo_inode(ino)].is_symlink THEN {ErrReply(EPERM)}
  ELSE IF ~xattr THEN {ErrReply(ENOSYS)}
  ELSE {}

\* The reply of the four xattr handlers that comes before the host call, if
\* any: ENOSYS when xattr support is off, EPERM for a symlink.
XattrReject(ino) ==
  IF ~xattr THEN {ErrReply(ENOSYS)}
  ELSE IF mem[lo_inode(ino)].is_symlink THEN {ErrReply(EPERM)}
  ELSE {}

\* The replies of lo_getxattr / lo_listxattr for a size once the host call
\* was made: it fails; a zero-length result is replied as error 0; else the
\* buffer, or for size 0 the length.
XattrReplies(size) ==
  IF size # 0
  THEN {ErrReply(EACCES), ErrReply(0), DataReply("buf")}
  ELSE {ErrReply(EACCES), DataReply("xattr")}

\* An xattr handler takes request r, replies one of rs and returns.
\* History: called, it has made the host's xattr call.
XattrStep(t, r, rs, bump, called) ==
  /\ Receive(t, r)
  /\ \E x \in rs : Reply(t, x)
  /\ Bump(bump)
  /\ DoneWith(t, [loc[t] EXCEPT !.inode = lo_inode(r.ino), !.called = called])
  /\ UNCHANGED <<optVars, ireg_thread, cred, dirp, tableVars, hostVars, stack,
                 regVars, crashed>>

\* lo_getxattr / lo_listxattr for request r: the tests, malloc for a size,
\* the host call
XattrGet(t, r, size) ==
  IF XattrReject(r.ino) # {}
  THEN XattrStep(t, r, XattrReject(r.ino), <<>>, FALSE)
  ELSE \/ size # 0 /\ XattrStep(t, r, {ErrReply(ENOMEM)}, <<>>, FALSE)
       \/ XattrStep(t, r, XattrReplies(size), <<>>, TRUE)

\* lo_getxattr
lo_getxattr(t) ==
  \E ino \in HeldHandles, size \in {0, 1} :
    XattrGet(t, OnIno("getxattr", ino), size)

\* lo_listxattr
lo_listxattr(t) ==
  \E ino \in HeldHandles, size \in {0, 1} :
    XattrGet(t, OnIno("listxattr", ino), size)

\* lo_setxattr / lo_removexattr: the tests, the host call, and
\* update_version when it succeeds
lo_setxattr(t) ==
  \E ino \in HeldHandles, op \in {"setxattr", "removexattr"} :
    IF XattrReject(ino) # {}
    THEN XattrStep(t, OnIno(op, ino), XattrReject(ino), <<>>, FALSE)
    ELSE \/ XattrStep(t, OnIno(op, ino), {FailReply(EACCES, "change")}, <<>>, TRUE)
         \/ XattrStep(t, OnIno(op, ino), {ErrReply(0)}, <<lo_inode(ino)>>, TRUE)

\* lo_copy_file_range: copy_file_range; on failure fuse_reply_err(-errno)
lo_copy_file_range(t) ==
  \E ino \in HeldHandles :
    OneStep(t, OnIno("copy_file_range", ino),
            {DataReply("write"), ErrReply(-EIO)}, <<>>)

\* lo_setupmapping: with no fi, asprintf and open first; fuse_virtio_map
lo_setupmapping(t) ==
  \E ino \in HeldHandles, fi \in BOOLEAN :
    OneStep(t, OnIno("setupmapping", ino),
            {ErrReply(0), ErrReply(EINVAL)}
              \cup (IF fi THEN {} ELSE {ErrReply(ENOMEM), ErrReply(EACCES)}), <<>>)

\* lo_removemapping: fuse_virtio_unmap
lo_removemapping(t) ==
  \E ino \in HeldHandles :
    OneStep(t, OnIno("removemapping", ino), {ErrReply(0), ErrReply(EINVAL)}, <<>>)

\* ----------------------------------------------------- directory streams
\* The entries of a host directory in stream order; an entry's d_off is
\* its place in this order.
DirNames == <<".", "..", "d", "s">>

\* The d_off of the first entry of directory dir after position pos (0: end
\* of stream).
NextEntry(dir, pos) ==
  LET there == {i \in 1..Len(DirNames) :
                  /\ i > pos
                  /\ i <= 2 \/ Resolve(dir, DirNames[i]) # 0}
  IN IF there = {} THEN 0
     ELSE CHOOSE i \in there : \A j \in there : i <= j

\* No readdir request is running on the stream.
StreamIdle ==
  \A t \in Threads : req[t].op \notin {"readdir", "readdirplus", "releasedir",
                                        "fsyncdir"}

\* lo_opendir: calloc, openat, fdopendir
lo_opendir(t) ==
  /\ CanReceive(t)
  /\ \E ino \in HeldHandles :
       /\ Receive(t, OnIno("opendir", ino))
       /\ \/ /\ \E e \in {ENOMEM, EACCES}
                         \cup (IF hkind[lo_fd(ino)] # "dir" THEN {ENOTDIR} ELSE {}) :
                  Reply(t, ErrReply(e))
             /\ UNCHANGED dirp
          \/ /\ ~dirp.open
             /\ hkind[lo_fd(ino)] = "dir"
             /\ dirp' = [NoDirp EXCEPT !.open = TRUE, !.dir = lo_fd(ino),
                                       !.follow = TRUE]
             /\ Reply(t, DataReply("open"))
  /\ Done(t)
  /\ UNCHANGED <<optVars, ireg_thread, cred, tableVars, verVars, hostVars, stack, regVars, crashed>>

\* lo_releasedir: closedir, free
lo_releasedir(t) ==
  /\ dirp.open
  /\ StreamIdle
  /\ Receive(t, OnIno("releasedir", FUSE_ROOT_ID))
  /\ dirp' = NoDirp
  /\ Reply(t, ErrReply(0))
  /\ Done(t)
  /\ UNCHANGED <<optVars, ireg_thread, cred, tableVars, verVars, hostVars, stack, regVars, crashed>>

\* lo_fsyncdir: fsync or fdatasync of dirfd
lo_fsyncdir(t) ==
  /\ dirp.open
  /\ StreamIdle
  /\ Receive(t, OnIno("fsyncdir", FUSE_ROOT_ID))
  /\ \E e \in {0, EIO} : Reply(t, ErrReply(e))
  /\ Done(t)
  /\ UNCHANGED <<optVars, ireg_thread, cred, dirp, tableVars, verVars, hostVars, stack, regVars,
                 crashed>>

\* -------------------------------------------------------- lo_do_readdir
\* The handle of the directory the stream was opened on, as the kernel sends
\* it with each request on the stream.
StreamHandles == {h \in HeldHandles : lo_fd(h) = dirp.dir}

\* The d_off of the last entry of the sequence seen, 0 when it is empty.
LastOff(seen) == IF seen = <<>> THEN 0 ELSE seen[Len(seen)]

\* The stream record d once the client has the reply thread t now sends.
Delivered(t, d) ==
  IF d.follow /\ replies'[t] # <<>> /\ replies'[t][1].kind = "buf"
  THEN [d EXCEPT !.seen = @ \o [i \in 1..Len(replies'[t][1].entries) |->
                                  replies'[t][1].entries[i].off]]
  ELSE d

\* An end of lo_do_readdir that sends nothing after an error.
ReaddirReplyUnlessError(t, err, l) ==
  /\ IF err # 0
     THEN UNCHANGED <<replies, nlookup>>
     ELSE Reply(t, BufReply(l.buf))
  /\ DoneWith(t, [l EXCEPT !.err = err])

\* An end of lo_do_readdir that replies every error.
ReaddirReplyError(t, err, l) ==
  /\ IF err # 0
     THEN Reply(t, ErrReply(err))
     ELSE Reply(t, BufReply(l.buf))
  /\ DoneWith(t, [l EXCEPT !.err = err])

\* The reply at the end of lo_do_readdir: the error only if nothing was
\* stored in the buffer.
ReaddirReply(t, err, l) ==
  /\ IF err # 0 /\ l.rem = req[t].size
     THEN Reply(t, ErrReply(err))
     ELSE Reply(t, BufReply(l.buf))
  /\ DoneWith(t, [l EXCEPT !.err = err])

\* lo_readdir / lo_readdirplus: the request arrives; calloc of the buffer,
\* seekdir when the offset is not the stream's
lo_readdir(t) ==
  /\ CanReceive(t)
  /\ dirp.open
  /\ StreamIdle
  /\ \E ino \in StreamHandles, size \in 0..MaxBuf, offset \in 0..Len(DirNames),
        op \in {"readdir", "readdirplus"} :
       /\ Receive(t, [OnIno(op, ino) EXCEPT !.size = size, !.offset = offset])
       /\ \/ /\ Reply(t, ErrReply(ENOMEM))
             /\ DoneWith(t, [loc[t] EXCEPT !.err = ENOMEM])
             /\ UNCHANGED dirp
          \/ /\ LET follow == dirp.follow /\ offset = LastOff(dirp.seen)
                    d == [dirp EXCEPT !.follow = follow,
                                      !.seen = IF follow THEN @ ELSE <<>>]
                IN dirp' = IF offset # dirp.offset
                           THEN [d EXCEPT !.pos = offset, !.entry = 0,
                                          !.offset = offset]
                           ELSE d
             /\ loc' = [loc EXCEPT ![t].rem = size, ![t].buf = <<>>]
             /\ Goto(t, "lo_readdir_loop")
             /\ UNCHANGED <<replies, nlookup>>
  /\ UNCHANGED <<optVars, ireg_thread, cred, tableVars, verVars, hostVars, stack, regVars, crashed>>

\* A lo_do_readdir that forgets the entry that did not fit.
ReaddirAddSkip(t, e, h) ==
  IF loc[t].rem = 0
  THEN /\ ReaddirReply(t, 0, loc[t])
       /\ dirp' = Delivered(t, [dirp EXCEPT !.entry = 0,
                                   !.pos = IF dirp.entry = 0 THEN e ELSE @])
  ELSE /\ loc' = [loc EXCEPT ![t].rem = @ - 1,
                              ![t].buf = Append(@, [off |-> e, ino |-> h])]
       /\ dirp' = [dirp EXCEPT !.entry = 0, !.offset = e,
                               !.pos = IF dirp.entry = 0 THEN e ELSE @]
       /\ Goto(t, "lo_readdir_loop")
       /\ UNCHANGED <<replies, nlookup>>

\* lo_do_readdir after an entry was added to the buffer, or was not for
\* lack of room (then the loop ends).  e: the entry; h: its e.ino, 0 for none
ReaddirAdd(t, e, h) ==
  IF loc[t].rem = 0
  THEN /\ ReaddirReply(t, 0, loc[t])
       /\ dirp' = Delivered(t, [dirp EXCEPT !.entry = e,
                                   !.pos = IF dirp.entry = 0 THEN e ELSE @])
  ELSE /\ loc' = [loc EXCEPT ![t].rem = @ - 1,
                              ![t].buf = Append(@, [off |-> e, ino |-> h])]
       /\ dirp' = [dirp EXCEPT !.entry = 0, !.offset = e,
                               !.pos = IF dirp.entry = 0 THEN e ELSE @]
       /\ Goto(t, "lo_readdir_loop")
       /\ UNCHANGED <<replies, nlookup>>

\* lo_do_readdir: one turn of the loop: readdir when no entry is kept, then
\* the entry is added (plain, or "." and ".."), or lo_do_lookup is called
lo_readdir_loop(t) ==
  /\ At(t, "lo_readdir_loop")
  /\ LET e == IF dirp.entry # 0 THEN dirp.entry ELSE NextEntry(dirp.dir, dirp.pos)
     IN \/ \* readdir fails
           /\ dirp.entry = 0
           /\ ReaddirReply(t, EIO, loc[t])
           /\ dirp' = Delivered(t, dirp)
           /\ UNCHANGED stack
        \/ \* end of stream
           /\ e = 0
           /\ ReaddirReply(t, 0, loc[t])
           /\ dirp' = Delivered(t, dirp)
           /\ UNCHANGED stack
        \/ /\ e # 0
           /\ req[t].op = "readdir" \/ e <= 2
           /\ ReaddirAdd(t, e, 0)
           /\ UNCHANGED stack
        \/ /\ e # 0
           /\ req[t].op = "readdirplus" /\ e > 2
           /\ dirp' = [dirp EXCEPT !.entry = e, !.pos = IF dirp.entry = 0 THEN e ELSE @]
           /\ lo_do_lookup(t, req[t].ino, DirNames[e], "lo_readdir_err", loc[t])
           /\ UNCHANGED <<replies, nlookup>>
  /\ UNCHANGED <<optVars, ireg_thread, cred, tableVars, verVars, hostVars, req, nreq, regVars,
                 crashed>>

\* lo_do_readdir: lo_do_lookup returned 0 and there is room: the entry is added
lo_readdir_entry(t) ==
  /\ At(t, "lo_do_lookup_stat")
  /\ Head(stack[t]) = "lo_readdir_err"
  /\ loc[t].rem > 0
  /\ ReaddirAdd(t, dirp.entry, loc[t].inode)
  /\ stack' = [stack EXCEPT ![t] = Tail(@)]
  /\ UNCHANGED <<optVars, ireg_thread, cred, tableVars, verVars, hostVars, req, nreq, regVars,
                 crashed>>

\* A lo_do_readdir that keeps the reference of the entry that did not fit.
lo_readdir_full_keep(t) ==
  /\ At(t, "lo_do_lookup_stat")
  /\ Head(stack[t]) = "lo_readdir_err"
  /\ loc[t].rem = 0
  /\ loc' = [loc EXCEPT ![t].inode = NULL, ![t].err = 0]
  /\ Goto(t, "lo_do_lookup_ret")
  /\ UNCHANGED <<optVars, ireg_thread, cred, dirp, tableVars, verVars, hostVars, req, replies,
                 nlookup, nreq, regVars, stack, crashed>>

\* lo_do_readdir: lo_do_lookup returned 0 and there is no room:
\* lo_forget_one(req, entry_ino, 1), and the loop ends with err = 0 (the
\* return position of lo_do_lookup is taken off the stack as on its error
\* return)
lo_readdir_full(t) ==
  /\ At(t, "lo_do_lookup_stat")
  /\ Head(stack[t]) = "lo_readdir_err"
  /\ loc[t].rem = 0
  /\ unref_inode(t, loc[t].inode, 1, "lo_do_lookup_ret",
                 [loc[t] EXCEPT !.inode = NULL, !.err = 0])
  /\ UNCHANGED <<optVars, ireg_thread, cred, dirp, openfd, verVars, hostVars, req, replies,
                 nlookup, nreq, regVars>>

\* lo_do_readdir at error, or past the loop: the reply
lo_readdir_err(t) ==
  /\ At(t, "lo_readdir_err")
  /\ ReaddirReply(t, loc[t].err, loc[t])
  /\ dirp' = Delivered(t, dirp)
  /\ UNCHANGED <<optVars, ireg_thread, cred, tableVars, verVars, hostVars, req, stack, nreq,
                 regVars, crashed>>

\* ============================================================= steps
\* The steps of lookup and forget requests.
LookupStep(t) ==
  \/ lo_lookup(t) \/ lo_find(t) \/ lo_do_lookup_new(t)
  \/ ireg_do(t) \/ get_shared_wait(t) \/ lo_do_lookup_add(t)
  \/ lo_do_lookup_fail(t) \/ lo_do_lookup_ret(t)
  \/ lo_lookup_reply(t) \/ lo_lookup_err(t)
  \/ lo_forget(t) \/ lo_forget_reply(t)
  \/ unref_evict(t) \/ fuse_session_loop(t)

\* The steps of forget_multi requests.
ForgetMultiStep(t) == lo_forget_multi(t) \/ lo_forget_multi_one(t)

\* The steps of unlink and rmdir requests.
UnlinkStep(t) == lo_unlink(t) \/ lo_unlink_do(t) \/ lo_unlink_unref(t)

\* The steps of rename requests.
RenameStep(t) ==
  \/ lo_rename(t) \/ lo_rename_new(t) \/ lo_rename_do(t)
  \/ lo_rename_unref_old(t) \/ lo_rename_unref_new(t)

\* The steps of mknod, mkdir and symlink requests.
MknodStep(t) ==
  \/ lo_mknod_symlink(t) \/ lo_mknod_call(t) \/ lo_mknod_lookup(t)
  \/ lo_mknod_reply(t) \/ lo_mknod_err(t)

\* The steps of create and link requests.
CreateStep(t) ==
  \/ lo_create(t) \/ lo_create_call(t) \/ lo_create_lookup(t)
  \/ lo_create_reply(t) \/ lo_create_err(t)
  \/ lo_link(t) \/ lo_link_fallback(t)

\* The steps of setattr and of the path resolver.
SetattrStep(t) ==
  \/ lo_setattr(t) \/ lo_setattr_fallback(t)
  \/ lo_parent_and_name(t) \/ lo_parent_and_name_last(t)
  \/ lo_parent_and_name_fail(t)

\* The handlers of one host call.
FileStep(t) ==
  \/ lo_getattr(t) \/ lo_readlink(t) \/ lo_open(t) \/ lo_release(t)
  \/ lo_flush(t) \/ lo_fsync(t) \/ lo_read(t) \/ lo_statfs(t) \/ lo_flock(t)
  \/ lo_write_buf(t) \/ lo_fallocate(t)
  \/ lo_getxattr(t) \/ lo_listxattr(t) \/ lo_setxattr(t)
  \/ lo_copy_file_range(t) \/ lo_setupmapping(t) \/ lo_removemapping(t)

\* The steps of the requests on a directory stream.
DirStep(t) ==
  \/ lo_opendir(t) \/ lo_releasedir(t) \/ lo_fsyncdir(t)
  \/ lo_readdir(t) \/ lo_readdir_loop(t) \/ lo_readdir_entry(t)
  \/ lo_readdir_full(t) \/ lo_readdir_err(t)

\* ================================================== specifications
\* One worker thread (the -s option), every handler.
Next ==
  \/ LookupStep(1) \/ ForgetMultiStep(1) \/ UnlinkStep(1) \/ RenameStep(1)
  \/ MknodStep(1) \/ CreateStep(1) \/ SetattrStep(1) \/ FileStep(1)
  \/ DirStep(1)

Spec == Init /\ [][Next]_vars

\* Worker threads that serve lookup and forget requests concurrently.
NextLookup == \E t \in Threads : LookupStep(t)

SpecLookup == SetupMt({FALSE}, {FALSE}, {-1, 3}, MaxReqs) /\ [][NextLookup]_vars

\* Worker threads that serve lookup, forget, forget_multi, unlink, rmdir and
\* write_buf requests concurrently, the version registry connected.
NextTable ==
  \E t \in Threads :
    LookupStep(t) \/ ForgetMultiStep(t) \/ UnlinkStep(t) \/ lo_write_buf(t)

SpecTable == SetupMt({FALSE}, {FALSE}, {3}, MaxReqs) /\ [][NextTable]_vars

\* One worker thread and a client that also sends forgets for the root.
NextRoot == LookupStep(1) \/ SetattrStep(1) \/ lo_forget_root(1)

SpecRoot == Setup({FALSE}, {FALSE}, {-1, 3}, SeqReqs) /\ [][NextRoot]_vars

\* One worker thread; lookups, new entries, setattr, and forgets.
NextBalance ==
  LookupStep(1) \/ ForgetMultiStep(1) \/ MknodStep(1) \/ SetattrStep(1)

SpecBalance == Setup({FALSE}, {FALSE}, {-1, 3}, BalReqs) /\ [][NextBalance]_vars

\* One worker thread; lookups, forgets and the requests on a directory
\* stream.  No request changes the host tree.
NextDir == LookupStep(1) \/ DirStep(1)

SpecDir == Setup({FALSE}, {FALSE}, {-1, 3}, DirReqs) /\ [][NextDir]_vars

\* Worker threads that serve lookup and forget requests, and a version
\* registry that answers as it likes or goes away.
NextShared ==
  \/ \E t \in Threads : LookupStep(t) \/ ireg_do_bad(t)
  \/ ireg_do_exit

\* What the thread that runs ireg_do does about thread t's GET once read()
\* returns.
IregStep(t) == ireg_do(t) \/ ireg_do_bad(t) \/ (t \in gets /\ ireg_do_exit)

\* Every worker thread is scheduled, and read() on the registry's socket
\* returns for every GET written.
SpecShared ==
  /\ SetupMt({FALSE}, {FALSE}, {3}, MaxReqs)
  /\ [][NextShared]_vars
  /\ \A t \in Threads : WF_vars(LookupStep(t)) /\ WF_vars(IregStep(t))

\* One worker thread, with and without the norace option; lookups, forgets,
\* setattr and link.
NextNorace ==
  LookupStep(1) \/ SetattrStep(1) \/ lo_link(1) \/ lo_link_fallback(1)

SpecNorace == Setup(BOOLEAN, {FALSE}, {3}, SeqReqs) /\ [][NextNorace]_vars

\* One worker thread, every setting of the writeback and cache options and
\* of the kernel's offer of the writeback cache; lookups, forgets, open and
\* create with every flags value.
NextOpen ==
  \/ LookupStep(1) \/ lo_open(1)
  \/ lo_create(1) \/ lo_create_call(1) \/ lo_create_lookup(1)
  \/ lo_create_reply(1) \/ lo_create_err(1)

SpecOpen ==
  /\ SetupOpts({FALSE}, {FALSE}, {3}, SeqReqs, BOOLEAN, Caches, BOOLEAN)
  /\ [][NextOpen]_vars

\* Worker threads that serve lookup, forget, unlink, rmdir and rename
\* requests concurrently, without a registry (ireg_sock = -1: get_shared
\* returns at once and no thread runs ireg_do).
NextRemove ==
  \E t \in Threads :
    \/ lo_lookup(t) \/ lo_find(t) \/ lo_do_lookup_new(t) \/ lo_do_lookup_add(t)
    \/ lo_do_lookup_fail(t) \/ lo_do_lookup_ret(t)
    \/ lo_lookup_reply(t) \/ lo_lookup_err(t)
    \/ lo_forget(t) \/ lo_forget_reply(t)
    \/ unref_evict(t) \/ fuse_session_loop(t)
    \/ UnlinkStep(t) \/ RenameStep(t)

SpecRemove == SetupMt({FALSE}, {FALSE}, {-1}, MaxReqs) /\ [][NextRemove]_vars

\* ------------------------------------------------------------ lo->mutex
\* The handlers of lookup, forget and link with pthread_mutex_lock, the
\* critical section and pthread_mutex_unlock as steps of their own; the
\* second fstatat of lo_do_lookup succeeds.

\* The positions at which a thread calls pthread_mutex_lock.
LockPcs == {"lo_find", "lo_do_lookup_add", "unref_inode", "lo_link_ref"}

\* The positions at which a thread is inside the critical section.
LockedPcs == {"lo_find_locked", "lo_do_lookup_add_locked", "unref_inode_locked",
              "lo_link_locked"}

LockedPc(l) ==
  CASE l = "lo_find" -> "lo_find_locked"
    [] l = "lo_do_lookup_add" -> "lo_do_lookup_add_locked"
    [] l = "unref_inode" -> "unref_inode_locked"
    [] OTHER -> "lo_link_locked"

\* pthread_mutex_lock(&lo->mutex): it returns once the mutex is free
pthread_mutex_lock(t) ==
  /\ ~crashed
  /\ pc[t] \in LockPcs
  /\ mutex = 0
  /\ mutex' = t
  /\ Goto(t, LockedPc(pc[t]))
  /\ UNCHANGED <<options, ireg_thread, cred, dirp, tableVars, verVars, hostVars, req, loc, stack,
                 replies, nlookup, nreq, regVars, crashed>>

\* A lo_find that returns at once when HASH_FIND finds nothing, the mutex
\* still locked.
lo_find_locked_miss(t) ==
  /\ At(t, "lo_find_locked")
  /\ LET hits == HashFind(loc[t].newfd)
     IN IF hits # {}
        THEN \E p \in hits :
               IF mem[p].refcount > 0
               THEN /\ mem' = [mem EXCEPT ![p].refcount = @ + 1]
                    /\ loc' = [loc EXCEPT ![t].inode = p, ![t].newfd = 0]
                    /\ Goto(t, "lo_do_lookup_stat")
                    /\ mutex' = 0
                    /\ UNCHANGED crashed
               ELSE /\ crashed' = TRUE
                    /\ UNCHANGED <<mem, loc, pc, mutex>>
        ELSE /\ Goto(t, "lo_do_lookup_new")
             /\ UNCHANGED <<mem, loc, crashed, mutex>>
  /\ UNCHANGED <<options, ireg_thread, cred, dirp, lo_inodes, openfd, verVars, hostVars, req, stack,
                 replies, nlookup, nreq, regVars>>

\* lo_find inside the mutex: HASH_FIND, assert and p->refcount++ on a hit,
\* pthread_mutex_unlock
lo_find_locked(t) ==
  /\ At(t, "lo_find_locked")
  /\ LET hits == HashFind(loc[t].newfd)
     IN IF hits # {}
        THEN \E p \in hits :
               IF mem[p].refcount > 0
               THEN /\ mem' = [mem EXCEPT ![p].refcount = @ + 1]
                    /\ loc' = [loc EXCEPT ![t].inode = p, ![t].newfd = 0]
                    /\ Goto(t, "lo_do_lookup_stat")
                    /\ mutex' = 0
                    /\ UNCHANGED crashed
               ELSE \* assert(p->refcount > 0)
                    /\ crashed' = TRUE
                    /\ UNCHANGED <<mem, loc, pc, mutex>>
        ELSE /\ Goto(t, "lo_do_lookup_new")
             /\ mutex' = 0
             /\ UNCHANGED <<mem, loc, crashed>>
  /\ UNCHANGED <<options, ireg_thread, cred, dirp, lo_inodes, openfd, verVars, hostVars, req, stack,
                 replies, nlookup, nreq, regVars>>

\* lo_do_lookup inside the mutex: HASH_ADD, pthread_mutex_unlock
lo_do_lookup_add_locked(t) ==
  /\ At(t, "lo_do_lookup_add_locked")
  /\ lo_inodes' = lo_inodes \cup {loc[t].inode}
  /\ mutex' = 0
  /\ Goto(t, "lo_do_lookup_stat")
  /\ UNCHANGED <<options, ireg_thread, cred, dirp, mem, openfd, verVars, hostVars, req, loc, stack,
                 replies, nlookup, nreq, regVars, crashed>>

\* lo_forget: the request arrives; lo_forget_one calls unref_inode(lo, inode,
\* nlookup)
lo_forget_one(t) ==
  /\ CanReceive(t)
  /\ \E h \in HeapPtrs, n \in 1..SeqReqs :
       /\ n <= nlookup[h]
       /\ n < nlookup[h] \/ ~InUse(h)
       /\ Receive(t, [NoReq EXCEPT !.op = "forget", !.ino = h, !.nlookup = n])
       /\ nlookup' = [nlookup EXCEPT ![h] = @ - n]
       /\ loc' = [loc EXCEPT ![t].uptr = lo_inode(h)]
  /\ Call(t, "unref_inode", "lo_forget_reply")
  /\ UNCHANGED <<optVars, ireg_thread, cred, dirp, tableVars, verVars, hostVars, replies, regVars,
                 crashed>>

\* unref_inode inside the mutex: assert, inode->refcount -= n; HASH_DEL when
\* none is left; pthread_mutex_unlock; then close, put_shared and free
\* (unref_evict), or the return
unref_inode_locked(t) ==
  /\ At(t, "unref_inode_locked")
  /\ LET p == loc[t].uptr
         n == req[t].nlookup
     IN IF mem[p].refcount < n
        THEN \* assert(inode->refcount >= n)
             /\ crashed' = TRUE
             /\ UNCHANGED <<mem, lo_inodes, pc, stack, loc, mutex>>
        ELSE IF UnrefCount(p, n) = 0
        THEN /\ mem' = [mem EXCEPT ![p].refcount = 0]
             /\ lo_inodes' = lo_inodes \ {p}
             /\ mutex' = 0
             /\ Goto(t, "unref_evict")
             /\ UNCHANGED <<loc, stack, crashed>>
        ELSE /\ mem' = [mem EXCEPT ![p].refcount = UnrefCount(p, n)]
             /\ mutex' = 0
             /\ Ret(t)
             /\ loc' = [loc EXCEPT ![t].uptr = NULL]
             /\ UNCHANGED <<lo_inodes, crashed>>
  /\ UNCHANGED <<options, ireg_thread, cred, dirp, openfd, verVars, hostVars, req, replies, nlookup,
                 nreq, regVars>>

\* lo_link: the request arrives; linkat with AT_EMPTY_PATH and fstatat
lo_link_call(t) ==
  /\ CanReceive(t)
  /\ \E ino \in HeldHandles, parent \in HeldHandles, name \in Names :
       LET r == [NoReq EXCEPT !.op = "link", !.ino = ino, !.parent = parent,
                              !.name = name]
           inode == lo_inode(ino)
           dir == lo_fd(parent)
           errs == LinkErrs(mem[inode].key, dir, name)
       IN /\ Receive(t, r)
          /\ \/ /\ \E e \in errs : Reply(t, FailReply(e, "change"))
                /\ DoneWith(t, [loc[t] EXCEPT !.inode = inode])
                /\ UNCHANGED hostVars
             \/ /\ errs = {EACCES}
                /\ htree' = [htree EXCEPT ![<<dir, name>>] = mem[inode].key]
                /\ UNCHANGED hkind
                /\ \/ \* fstatat fails
                      /\ Reply(t, FailReply(EACCES, "later"))
                      /\ DoneWith(t, [loc[t] EXCEPT !.inode = inode])
                   \/ /\ loc' = [loc EXCEPT ![t].inode = inode]
                      /\ Goto(t, "lo_link_ref")
                      /\ UNCHANGED <<replies, nlookup>>
  /\ UNCHANGED <<optVars, ireg_thread, cred, dirp, tableVars, verVars, stack, regVars, crashed>>

\* lo_link inside the mutex: inode->refcount++, pthread_mutex_unlock; then
\* the version updates and fuse_reply_entry
lo_link_locked(t) ==
  /\ At(t, "lo_link_locked")
  /\ mem' = [mem EXCEPT ![loc[t].inode].refcount = @ + 1]
  /\ mutex' = 0
  /\ Bump(<<loc[t].inode, lo_inode(req[t].parent)>>)
  /\ Reply(t, EntryReply("entry", loc[t].inode, 0, 0))
  /\ Done(t)
  /\ UNCHANGED <<options, ireg_thread, cred, dirp, lo_inodes, openfd, hostVars, req, stack, nreq,
                 regVars, crashed>>

\* The steps of a worker thread that serves lookup, forget and link requests.
MutexStep(t) ==
  \/ lo_lookup(t) \/ pthread_mutex_lock(t) \/ lo_find_locked(t)
  \/ lo_do_lookup_new(t) \/ get_shared_wait(t) \/ lo_do_lookup_add_locked(t)
  \/ lo_lookup_reply(t)
  \/ lo_forget_one(t) \/ unref_inode_locked(t) \/ unref_evict(t)
  \/ lo_forget_reply(t)
  \/ lo_link_call(t) \/ lo_link_locked(t)
  \/ fuse_session_loop(t)

NextMutex == \E t \in Threads : MutexStep(t) \/ ireg_do(t)

\* Every worker thread is scheduled; the registry may leave a GET without
\* answer for ever.
SpecMutex ==
  /\ SetupMt({FALSE}, {FALSE}, {3}, MaxReqs)
  /\ [][NextMutex]_vars
  /\ \A t \in Threads : WF_vars(MutexStep(t))

\* ============================================================ claims
\* Every thread waits for a request.
AllIdle == \A t \in Threads : pc[t] = "idle"

\* The kernel holds no handle any more.
Forgotten == \A h \in HeapPtrs : nlookup[h] = 0

\* The inode objects a lookup can be answered with: the table's, and the root.
LiveObjs == lo_inodes \cup {RootPtr}

\* Thread t's handler has returned to the transport.
Returned(t) == pc[t] = "done"

\* Thread t's handler has returned and its reply reports success.
Succeeded(t) ==
  /\ Returned(t)
  /\ Len(replies[t]) = 1
  /\ replies[t][1].kind # "err" \/ replies[t][1].err = 0

\* Thread t's handler has returned with an error reply of cause why.
Failed(t, whys) ==
  /\ Returned(t)
  /\ Len(replies[t]) = 1
  /\ replies[t][1].kind = "err" /\ replies[t][1].err # 0
  /\ replies[t][1].why \in whys

\* Object p has no version slot, or its version has grown since thread t
\* took its request.
Bumped(t, p) ==
  \/ p = NULL
  \/ mem[p].version_offset = 0
  \/ version_table[mem[p].version_offset] > req[t].vstart[mem[p].version_offset]

\* The handlers that change the object they are sent for.
SelfOps == {"setattr", "write_buf", "fallocate", "setxattr", "removexattr"}
\* The handlers that make an entry in a parent directory.
EntryOps == {"mknod", "mkdir", "symlink", "create"}
\* The handlers that remove an entry from a parent directory.
RemoveOps == {"unlink", "rmdir"}
MutatingOps == SelfOps \cup EntryOps \cup RemoveOps \cup {"link"}

\* The objects whose version the request of thread t is to update.
Targets(t) ==
  LET r == req[t]
  IN CASE r.op \in SelfOps -> {lo_inode(r.ino)}
       [] r.op \in EntryOps -> {lo_inode(r.parent)}
       [] r.op = "link" -> {lo_inode(r.ino), lo_inode(r.parent)}
       [] r.op \in RemoveOps -> {loc[t].inode, lo_inode(r.parent)}
       [] OTHER -> {}

\* C1: the inode table holds at most one entry per (dev,ino) key, also
\* when lookups of a key that is not in the table yet run concurrently.
C1_OneEntryPerKey ==
  \A p, q \in lo_inodes : mem[p].key = mem[q].key => p = q

\* C2: N concurrent lookups of one name under one parent all reply the same
\* handle, whose inode then holds one reference per reply; and once the
\* kernel has forgotten every reference of a handle, its inode is out of
\* the table, freed, and its fd closed.
C2_ConcurrentLookups ==
  /\ \A t, u \in Threads :
       (/\ t # u
        /\ \A v \in Threads : pc[v] \in {"idle", "done"}
        /\ pc[t] = "done" /\ pc[u] = "done"
        /\ req[t].op = "lookup" /\ req[u].op = "lookup"
        /\ req[t].parent = req[u].parent /\ req[t].name = req[u].name
        /\ replies[t][1].kind = "entry" /\ replies[u][1].kind = "entry")
       => /\ replies[t][1].ino = replies[u][1].ino
          /\ mem[replies[t][1].ino].refcount = nlookup[replies[t][1].ino]
  /\ \A h \in HeapPtrs :
       (AllIdle /\ nlookup[h] = 0) => (~mem[h].alloc /\ h \notin openfd)

\* C3: the reference count of an inode is the number of lookup references
\* the kernel holds: once every handler has returned and the kernel has
\* forgotten all it was given, the table is empty and only the root's
\* descriptor is open.
C3_RefcountBalance ==
  (AllIdle /\ Forgotten) => (lo_inodes = {} /\ openfd \subseteq {RootPtr})

\* C4: an inode in the table has a positive refcount and an open fd; the fd
\* is closed once, by the thread whose unref_inode took the refcount to
\* zero, after that call removed the inode from the table under the mutex.
C4_TableMembers ==
  /\ [](\A p \in lo_inodes :
          mem[p].alloc /\ mem[p].refcount > 0 /\ p \in openfd)
  /\ [][\A p \in HeapPtrs :
          /\ (mem[p].alloc /\ mem[p].refcount > 0 /\ mem'[p].refcount = 0
              /\ mem'[p].alloc) => p \notin lo_inodes'
          /\ (p \in openfd /\ p \notin openfd')
               => /\ mem[p].refcount = 0
                  /\ p \notin lo_inodes
                  /\ Cardinality({t \in Threads : pc[t] = "unref_evict"
                                                  /\ loc[t].uptr = p}) = 1
                  /\ \E t \in Threads :
                       pc[t] = "unref_evict" /\ pc'[t] # "unref_evict"
                       /\ loc[t].uptr = p]_vars

\* An inode that was in the table is out of it, its refcount zero, and the
\* thread that took its last reference is about to close its fd, while the
\* other thread is inside a handler.
C4_Evicting ==
  \E t \in Threads :
    /\ pc[t] = "unref_evict"
    /\ loc[t].uptr \in HeapPtrs
    /\ loc[t].uptr \in openfd
    /\ loc[t].uptr \notin lo_inodes
    /\ \E u \in Threads : u # t /\ pc[u] \notin {"idle", "done"}

\* C5: no two live inode objects have the same (dev,ino) key, the
\* preallocated root included.
C5_OneObjectPerKey ==
  \A p, q \in LiveObjs : mem[p].key = mem[q].key => p = q

\* C6: the root inode is never evicted: whatever the requests, forgets that
\* name the root among them, it keeps a reference and its descriptor.
C6_RootNeverEvicted ==
  /\ mem[RootPtr].alloc
  /\ mem[RootPtr].refcount > 0
  /\ RootPtr \in openfd

\* C7: a handler that returns has sent exactly one reply for its request,
\* and no handler ever sends a second one.
C7_ExactlyOneReply ==
  \A t \in Threads :
    /\ Len(replies[t]) <= 1
    /\ Returned(t) => Len(replies[t]) = 1

\* A readdirplus handler has returned after an error in mid-stream, its one
\* reply being the buffer of the entries it had stored.
C7_ReaddirplusReplied ==
  \E t \in Threads :
    /\ Returned(t)
    /\ req[t].op = "readdirplus"
    /\ replies[t][1].kind = "buf"
    /\ replies[t][1].entries # <<>>

\* C8: each update_version call adds exactly one to the slot of its inode,
\* whatever the interleaving; the version read for an inode never goes
\* down; and for an inode with version_offset 0 the version read is 0 and
\* update_version changes no slot.
C8_VersionCounters ==
  /\ [](\A s \in Slots \ {0} : version_table[s] = ncalls[s])
  /\ [](version_table[0] = 0)
  /\ [](\A p \in Ptrs :
          mem[p].version_offset = 0 => get_version(version_table, mem[p]) = 0)
  /\ [][\A p \in Ptrs :
          (mem[p].alloc /\ mem'[p].alloc)
            => get_version(version_table', mem'[p])
                 >= get_version(version_table, mem[p])]_vars

\* update_version has been called on an inode without a slot and at least
\* twice on the inode of one slot.
C8_Updated ==
  /\ ncalls[0] > 0
  /\ \E s \in Slots \ {0} : ncalls[s] >= 2 /\ version_table[s] >= 2

C10_RenameBumps ==
  \A t \in Threads :
    (req[t].op = "rename")
      => /\ Succeeded(t)
              => /\ Bumped(t, loc[t].oldinode)
                 /\ Bumped(t, loc[t].newinode)
                 /\ Bumped(t, lo_inode(req[t].parent))
                 /\ Bumped(t, lo_inode(req[t].newparent))
         /\ (Returned(t) /\ req[t].flags # 0 /\ replies[t][1].err = EINVAL)
              => version_table = req[t].vstart

\* The requests that read a directory stream.
ReaddirOps == {"readdir", "readdirplus"}

RECURSIVE ListFrom(_, _)
\* The d_off of the entries of host directory dir after position pos, in
\* the order of the stream.
ListFrom(dir, pos) ==
  LET e == NextEntry(dir, pos)
  IN IF e = 0 THEN <<>> ELSE <<e>> \o ListFrom(dir, e)

\* Sequence a is the beginning of sequence b.
IsPrefix(a, b) == Len(a) <= Len(b) /\ \A i \in 1..Len(a) : a[i] = b[i]

\* C11: after a readdirplus call, whatever its outcome, every inode holds
\* one reference per lookup the kernel counts for it, as before the call:
\* the call has added one reference per entry of the inode in its reply
\* buffer and none for an entry that was looked up but did not fit; the
\* entries "." and ".." carry no handle, all others do.
C11_ReaddirplusRefs ==
  \A t \in Threads :
    (AllIdle \/ (Returned(t) /\ req[t].op = "readdirplus"))
      => /\ \A p \in HeapPtrs : mem[p].refcount = nlookup[p]
         /\ (Returned(t) /\ req[t].op = "readdirplus")
              => \A i \in 1..Len(replies[t][1].entries) :
                   (replies[t][1].entries[i].off <= 2)
                     <=> (replies[t][1].entries[i].ino = 0)

\* readdirplus has looked an entry up that did not fit after another was
\* stored, and has released its reference again.
C11_Undone ==
  \E t \in Threads :
    /\ pc[t] = "lo_do_lookup_ret"
    /\ req[t].op = "readdirplus"
    /\ loc[t].rem = 0 /\ loc[t].err = 0
    /\ loc[t].buf # <<>>
    /\ loc[t].buf[Len(loc[t].buf)].ino # 0

\* C12: readdir and readdirplus reply an error exactly when the call met
\* an error with nothing stored in the buffer; otherwise the reply is the
\* buffer with exactly the entries stored, the error suppressed.
C12_ReaddirErrors ==
  \A t \in Threads :
    (Returned(t) /\ req[t].op \in ReaddirOps)
      => /\ Len(replies[t]) = 1
         /\ (replies[t][1].kind = "err")
              <=> (loc[t].err # 0 /\ loc[t].buf = <<>>)
         /\ (replies[t][1].kind = "err") => replies[t][1].err = loc[t].err
         /\ (replies[t][1].kind # "err")
              => /\ replies[t][1].kind = "buf"
                 /\ replies[t][1].entries = loc[t].buf

\* A call has met an error after it had stored an entry, and has replied
\* the buffer.
C12_Suppressed ==
  \E t \in Threads :
    /\ Returned(t) /\ req[t].op \in ReaddirOps
    /\ loc[t].err # 0 /\ loc[t].buf # <<>>
    /\ replies[t][1].kind = "buf"

\* C13: while every readdir on a stream comes with the d_off of the last
\* entry received, the client has received a beginning of the host's
\* listing, each entry once and in order; d->offset is the d_off of the last
\* entry received; a reply with no entry to a call with room for one means
\* the listing is complete; and a call whose offset is not d->offset seeks
\* the stream there and drops the cached entry.
C13_ReaddirResumes ==
  /\ []((dirp.open /\ dirp.follow)
          => /\ IsPrefix(dirp.seen, ListFrom(dirp.dir, 0))
             /\ StreamIdle => dirp.offset = LastOff(dirp.seen)
             /\ \A t \in Threads :
                  (/\ Returned(t) /\ req[t].op \in ReaddirOps
                   /\ req[t].size > 0
                   /\ replies[t][1].kind = "buf"
                   /\ replies[t][1].entries = <<>>)
                  => dirp.seen = ListFrom(dirp.dir, 0))
  /\ [][\A t \in Threads :
          (/\ pc[t] = "idle" /\ pc'[t] = "lo_readdir_loop"
           /\ req'[t].offset # dirp.offset)
          => /\ dirp'.pos = req'[t].offset
             /\ dirp'.offset = req'[t].offset
             /\ dirp'.entry = 0]_vars

\* The client has received the whole listing of the root directory in
\* several replies, the last of them empty.
C13_Listed ==
  /\ dirp.open /\ dirp.follow
  /\ dirp.seen = <<1, 2, 3, 4>>
  /\ \E t \in Threads :
       /\ Returned(t) /\ req[t].op = "readdir" /\ req[t].size = 1
       /\ replies[t][1].kind = "buf" /\ replies[t][1].entries = <<>>

\* C14: in mknod, mkdir, symlink and create the host call runs with the
\* caller's effective uid and gid; when the handler has replied or returned
\* the thread has the effective uid and gid it had at handler entry, also
\* when the uid switch failed after the gid switch; and when restoring
\* fails the process exits without a reply.
C14_CredentialsRestored ==
  \A t \in Threads :
    (req[t].op \in EntryOps)
      => IF pc[t] \in {"lo_mknod_call", "lo_create_call"}
         THEN /\ replies[t] = <<>>
              /\ ~crashed => cred[t] = CallerCred
         ELSE cred[t] = loc[t].old

\* C15: every call of get_shared returns, whatever the registry does (it
\* answers, it answers with a record of the wrong size or the wrong op, it
\* disconnects after the GET was written), so that a lookup that allocates
\* a new inode reaches its reply.
C15_GetSharedReturns ==
  \A t \in Threads :
    (pc[t] = "get_shared_wait") ~> (pc[t] # "get_shared_wait" \/ crashed)

\* C16: without a registry socket no GET and no PUT is written, no thread
\* waits in get_shared and every inode has version_offset 0; a get_shared
\* whose GET is not written returns without waiting and leaves the new
\* inode's version_offset 0; and the entry reply for an inode with
\* version_offset 0 carries version_offset 0 and initial_version 0, the
\* inode being in the table.
C16_NoRegistry ==
  /\ [](ireg_sock = -1 =>
         /\ gets = {}
         /\ \A r \in Slots : puts[r] = 0
         /\ \A t \in Threads : pc[t] # "get_shared_wait"
         /\ \A p \in Ptrs : mem[p].version_offset = 0)
  /\ [](\A t \in Threads :
         (Succeeded(t) /\ replies[t][1].kind \in {"entry", "create"}
            /\ mem[replies[t][1].ino].version_offset = 0)
           => /\ replies[t][1].version_offset = 0
              /\ replies[t][1].initial_version = 0
              /\ replies[t][1].ino \in lo_inodes \cup {RootPtr})
  /\ [][\A t \in Threads :
          (pc[t] = "lo_do_lookup_new" /\ pc'[t] = "lo_do_lookup_add")
            => /\ gets' = gets
               /\ mem'[loc'[t].inode].version_offset = 0]_vars

\* Without a registry socket a lookup has made a new inode and replied it.
C16_Unshared ==
  /\ ireg_sock = -1
  /\ \E t \in Threads :
       /\ Succeeded(t) /\ req[t].op = "lookup"
       /\ replies[t][1].ino \in lo_inodes

\* The request of thread t is one that C17 is about: a setattr of atime or
\* mtime without a file handle on a symlink, or a link of a symlink.
OnSymlink(t) ==
  /\ \/ req[t].op = "setattr" /\ req[t].times /\ ~req[t].fi
     \/ req[t].op = "link"
  /\ mem[lo_inode(req[t].ino)].is_symlink

\* C17 (as the code has it): with norace set the path resolver is never
\* entered; a setattr of times on a symlink without a file handle, and a
\* link of a symlink, ends with success of the host's call with
\* AT_EMPTY_PATH, with the errno of a host call, or with EPERM; and the
\* handler that replies EPERM changes no entry of the host tree and bumps no
\* version.
C17_NoraceNoFallback ==
  /\ [](norace =>
         \A t \in Threads :
           /\ pc[t] \notin {"lpn_retry", "lpn_last", "lpn_fail",
                             "lo_setattr_fallback", "lo_link_fallback"}
           /\ (Returned(t) /\ OnSymlink(t))
                => /\ Len(replies[t]) = 1
                   /\ replies[t][1].kind \in {"err", "attr", "entry"}
                   /\ replies[t][1].kind = "err"
                        => replies[t][1].err \in {EPERM, EACCES, ENOTDIR, EEXIST})
  /\ [][\A t \in Threads :
          (norace /\ pc[t] = "idle" /\ pc'[t] = "done" /\ OnSymlink(t)'
             /\ replies'[t][1].err = EPERM)
            => UNCHANGED <<hostVars, verVars>>]_vars

\* C17 (as stated): with norace set every setattr of times on a symlink
\* without a file handle and every link of a symlink replies EPERM.
C17_AlwaysEperm ==
  \A t \in Threads :
    (norace /\ Returned(t) /\ OnSymlink(t))
      => replies[t] = <<FailReply(EPERM, "change")>>

\* With norace set a setattr of times on a symlink has replied EPERM.
C17_Refused ==
  /\ norace
  /\ \E t \in Threads :
       /\ Returned(t) /\ OnSymlink(t) /\ req[t].op = "setattr"
       /\ replies[t] = <<FailReply(EPERM, "change")>>
       /\ version_table = req[t].vstart

\* C18: the flags the host open of an open request is given have write-only
\* replaced by read-write and the other access modes kept, have O_APPEND
\* taken out if and only if the writeback cache was negotiated (the option
\* is set and the connection offers it), have O_NOFOLLOW taken out and
\* every other bit as in the request; the reply has direct_io iff
\* cache=none and keep_cache iff cache=always; and create promotes
\* write-only in the same way and adds O_CREAT.
C18_OpenFlags ==
  \A t \in Threads :
    LET in == req[t].fi_flags
        out == loc[t].hflags
    IN /\ (Returned(t) /\ req[t].op = "open")
            => /\ out.acc = (IF in.acc = O_WRONLY THEN O_RDWR ELSE in.acc)
               /\ "O_APPEND" \in out.bits
                    <=> ("O_APPEND" \in in.bits /\ ~WritebackWanted)
               /\ "O_NOFOLLOW" \notin out.bits
               /\ out.bits \ {"O_APPEND", "O_NOFOLLOW"}
                    = in.bits \ {"O_APPEND", "O_NOFOLLOW"}
               /\ Succeeded(t)
                    => /\ replies[t][1].direct_io <=> cache = CACHE_NONE
                       /\ replies[t][1].keep_cache <=> cache = CACHE_ALWAYS
       /\ (Returned(t) /\ req[t].op = "create" /\ ~Failed(t, {"before"}))
            => /\ out.acc = (IF in.acc = O_WRONLY THEN O_RDWR ELSE in.acc)
               /\ "O_CREAT" \in out.bits

\* The errno values of the host and of the handlers.
Errnos ==
  {EPERM, ENOENT, EIO, ENOMEM, EACCES, EEXIST, ENOTDIR, EINVAL, ENOSYS,
   ENOTEMPTY, EOPNOTSUPP, EISDIR, ENOSPC, ENAMETOOLONG}

\* C19: every error reply of every handler carries a positive errno value
\* (0 is replied for success only); no handler replies a negated errno, also
\* not copy_file_range when the host's copy fails.
C19_PositiveErrno ==
  \A t \in Threads :
    \A i \in 1..Len(replies[t]) :
      replies[t][i].kind = "err" => replies[t][i].err \in Errnos \cup {0}

\* The xattr handlers, and those of them that change the inode.
XattrOps == {"getxattr", "listxattr", "setxattr", "removexattr"}
XattrSetOps == {"setxattr", "removexattr"}

\* C20: getxattr, listxattr, setxattr and removexattr reply ENOSYS for every
\* inode, symlinks too, when xattr support is off, and EPERM for a symlink
\* when it is on; in both cases the host's xattr call is not made and no
\* version is bumped.  Else setxattr and removexattr make the host call and
\* bump the version of the inode, once, exactly when the call succeeded, and
\* no other version.
C20_XattrRejections ==
  \A t \in Threads :
    (Returned(t) /\ req[t].op \in XattrOps)
      => LET p == lo_inode(req[t].ino)
             off == mem[p].version_offset
             ok == replies[t][1].kind # "err" \/ replies[t][1].err = 0
             n == IF req[t].op \in XattrSetOps /\ ok /\ off # 0 THEN 1 ELSE 0
         IN /\ Len(replies[t]) = 1
            /\ ~xattr
                 => /\ replies[t][1] = ErrReply(ENOSYS)
                    /\ ~loc[t].called
                    /\ version_table = req[t].vstart
            /\ (xattr /\ mem[p].is_symlink)
                 => /\ replies[t][1] = ErrReply(EPERM)
                    /\ ~loc[t].called
                    /\ version_table = req[t].vstart
            /\ (xattr /\ ~mem[p].is_symlink /\ req[t].op \in XattrSetOps)
                 => /\ loc[t].called
                    /\ version_table
                         = [req[t].vstart EXCEPT ![off] = @ + n]

\* With xattr support off a setxattr on a symlink has been refused, ENOSYS.
C20_Disabled ==
  /\ ~xattr
  /\ \E t \in Threads :
       /\ Returned(t) /\ req[t].op = "setxattr"
       /\ mem[lo_inode(req[t].ino)].is_symlink
       /\ replies[t] = <<ErrReply(ENOSYS)>>

\* C21: the assertion refcount >= n of unref_inode never fails, in any
\* interleaving of the worker threads, for a client that forgets of a handle
\* no more than the entry replies have given it.
C21_AssertHolds == \A t \in Threads : pc[t] # "unref_assert"

\* While unlink or rmdir holds its transient reference on the child, a
\* forget of another thread has taken the client's references from it.
C21_ForgetMeanwhile ==
  \E t, u \in Threads :
    /\ pc[t] = "lo_unlink_unref"
    /\ pc[u] = "done" /\ req[u].op = "forget"
    /\ lo_inode(req[u].ino) = loc[t].inode
    /\ nlookup[req[u].ino] = 0
    /\ mem[loc[t].inode].refcount = 1

\* The handlers that reply an entry.
ReplyEntryOps == {"lookup", "mknod", "mkdir", "symlink", "create", "link"}

\* C22: a lookup, mknod, mkdir, symlink, create or link that has replied an
\* entry has raised the refcount of the inode of the entry by exactly 1; one
\* that has replied an error has left every refcount and the members of the
\* table as they were when the request arrived.
C22_ReferenceTransfer ==
  \A t \in Threads :
    (Returned(t) /\ req[t].op \in ReplyEntryOps /\ Len(replies[t]) = 1)
      => IF replies[t][1].kind \in {"entry", "create"}
         THEN mem[replies[t][1].ino].refcount
                = req[t].rstart[replies[t][1].ino] + 1
         ELSE /\ \A p \in Ptrs : mem[p].refcount = req[t].rstart[p]
              /\ lo_inodes = req[t].tstart

\* C23: when setattr of times or link on a symlink has gone to the path
\* resolver and the resolver has succeeded, the reference on the parent is
\* released after the call by parent and name: once the handler has
\* returned the parent's refcount is what it was when the request arrived.
C23_ParentReleased ==
  \A t \in Threads :
    (Returned(t) /\ req[t].op \in {"setattr", "link"} /\ loc[t].p # NULL)
      => mem[loc[t].p].refcount = req[t].rstart[loc[t].p]

\* The positions of the path resolver, and those it returns to.
ResolverPcs == {"lpn_retry", "lpn_last", "lpn_fail"}
FallbackPcs == {"lo_setattr_fallback", "lo_link_fallback"}

\* C24: a call of the path resolver makes at most three attempts, the first
\* and two retries; a call that fails sets EIO and holds no parent, every
\* reference an attempt took being released, so that all refcounts are what
\* they were at entry.
C24_ResolverBounded ==
  \A t \in Threads :
    /\ pc[t] \in ResolverPcs
         => /\ loc[t].attempts + loc[t].retries
                 = (IF pc[t] = "lpn_retry" THEN 2 ELSE 3)
            /\ loc[t].attempts <= 3
    /\ (pc[t] \in FallbackPcs /\ ~crashed)
         => /\ loc[t].attempts \in 1..3
            /\ loc[t].err \in {0, EIO}
            /\ loc[t].err = EIO
                 => /\ loc[t].p = NULL
                    /\ \A p \in Ptrs : mem[p].refcount = req[t].rstart[p]
                    /\ lo_inodes = req[t].tstart

\* The resolver has failed at its third attempt, after an attempt that had
\* taken a reference on a parent.
C24_GaveUp ==
  \E t \in Threads :
    /\ pc[t] \in FallbackPcs
    /\ loc[t].err = EIO /\ loc[t].attempts = 3 /\ loc[t].path # ""

\* C25: with norace set no handler enters the path resolver, and a link or
\* a setattr of times on a symlink ends with what the host's call with
\* AT_EMPTY_PATH gave, its failure for want of support replied as EPERM;
\* and with or without norace only a link of a symlink and a setattr of
\* times without file handle on a symlink ever enter the resolver.
C25_ResolverBypassed ==
  \A t \in Threads :
    /\ pc[t] \in ResolverPcs \cup FallbackPcs => ~norace /\ OnSymlink(t)
    /\ (norace /\ Returned(t) /\ req[t].op \in {"setattr", "link"})
         => /\ loc[t].attempts = 0
            /\ loc[t].p = NULL
            /\ Len(replies[t]) = 1
            /\ (replies[t][1].kind = "err" /\ replies[t][1].err = EPERM
                  /\ req[t].op = "setattr")
                 => OnSymlink(t)

\* With norace set a link of a symlink has been refused with EPERM.
C25_LinkRefused ==
  /\ norace
  /\ \E t \in Threads :
       /\ Returned(t) /\ OnSymlink(t) /\ req[t].op = "link"
       /\ replies[t] = <<FailReply(EPERM, "change")>>

\* The references on object p that thread t holds for the time of its
\* handler: the child of unlink and rmdir, the source and the target of
\* rename, and the reference of a lookup that has not replied yet.
Holds(t, p) ==
  (IF pc[t] \in {"lo_unlink_do", "lo_unlink_unref"} /\ loc[t].inode = p
   THEN 1 ELSE 0)
  + (IF pc[t] \in {"lo_rename_new", "lo_rename_do", "lo_rename_unref_old"}
        /\ loc[t].oldinode = p
     THEN 1 ELSE 0)
  + (IF /\ loc[t].newinode = p
        /\ \/ pc[t] \in {"lo_rename_do", "lo_rename_unref_old", "lo_rename_unref_new"}
           \/ pc[t] = "unref_evict" /\ stack[t] = <<"lo_rename_unref_new">>
     THEN 1 ELSE 0)
  + (IF pc[t] \in {"get_shared_wait", "lo_do_lookup_add", "lo_do_lookup_stat"}
        /\ loc[t].inode = p
     THEN 1 ELSE 0)

RECURSIVE HoldsAll(_, _)
HoldsAll(ts, p) ==
  IF ts = {} THEN 0
  ELSE LET t == CHOOSE u \in ts : TRUE
       IN Holds(t, p) + HoldsAll(ts \ {t}, p)

\* C26: unlink, rmdir and rename hold one reference on each child they
\* found, from lookup_name to their release of it, on every path: the
\* refcount of every inode is the client's count plus the references the
\* running handlers hold, so that a handler that has returned has changed no
\* refcount; and an inode a handler holds stays in the table, also when a
\* forget has taken the client's last reference meanwhile, until the handler
\* releases it.
C26_TransientReferences ==
  ~crashed =>
    \A p \in HeapPtrs :
      /\ mem[p].alloc => mem[p].refcount = nlookup[p] + HoldsAll(Threads, p)
      /\ \A t \in Threads :
           (Holds(t, p) > 0 /\ req[t].op \in {"unlink", "rmdir", "rename"})
             => mem[p].alloc /\ p \in lo_inodes /\ mem[p].refcount > 0

\* A forget has taken the client's last reference while a rename held the
\* source, and the release of the rename has then evicted it.
C26_EvictedByRelease ==
  \E t \in Threads :
    /\ req[t].op = "rename" /\ pc[t] = "unref_evict"
    /\ loc[t].uptr = loc[t].oldinode
    /\ \E u \in Threads : u # t /\ req[u].op = "forget" /\ pc[u] = "done"
                             /\ lo_inode(req[u].ino) = loc[t].oldinode

\* In this step no object that is in the table before and after it changes
\* its version_offset or its ireg_refid.
RegistrationKept ==
  \A p \in lo_inodes \cap lo_inodes' :
    (mem[p].alloc /\ mem'[p].alloc /\ mem[p].key = mem'[p].key)
      => /\ mem'[p].version_offset = mem[p].version_offset
         /\ mem'[p].ireg_refid = mem[p].ireg_refid

\* The entry that a handler has just replied carries the version_offset of
\* its inode.
EntryOffsetMatches ==
  \A t \in Threads :
    (Returned(t) /\ Len(replies[t]) = 1
       /\ replies[t][1].kind \in {"entry", "create"}
       /\ mem[replies[t][1].ino].alloc)
      => replies[t][1].version_offset = mem[replies[t][1].ino].version_offset

\* C27: no half-registered inode is observable: an inode is in the table
\* only once its registration has finished, so that its version_offset and
\* its ireg_refid never change while it is in the table, and every entry
\* reply carries the version_offset of its inode.
C27_NoHalfRegistered == [][RegistrationKept]_vars /\ []EntryOffsetMatches

\* Thread t is the one caller that this step wakes.
Wakes(t) ==
  /\ ~loc[t].ready /\ loc'[t].ready
  /\ \A u \in Threads \ {t} : loc'[u].ready = loc[u].ready

\* This step of ireg_do handles the answer to thread t's GET: either it is a
\* VERSION reply, which wakes t and no one else and gives t's inode its
\* offset and refid and changes no other object, or it is a bad record, which
\* wakes no one and changes no object.
ReplyMatched(t) ==
  LET p == loc[t].inode
  IN \/ /\ Wakes(t)
        /\ mem' = [mem EXCEPT ![p].version_offset = SlotOf(mem[p].key),
                              ![p].ireg_refid = mem[p].key]
     \/ /\ \A u \in Threads : loc'[u].ready = loc[u].ready
        /\ mem' = mem

\* C28: with GETs of several worker threads pending and the answers coming
\* in any order, a VERSION reply wakes exactly the caller whose handle it
\* echoes and sets the offset and refid of that caller's inode only; a record
\* of wrong size or op wakes no caller and changes no inode; a flag is raised
\* by these steps only; and a caller leaves get_shared's wait only once its
\* own reply has set its inode.
C28_ReplyMatching ==
  [][\A t \in Threads :
       /\ (t \in gets /\ t \notin gets') => ReplyMatched(t)
       /\ (~loc[t].ready /\ loc'[t].ready) => (t \in gets /\ t \notin gets')
       /\ (pc[t] = "get_shared_wait" /\ pc'[t] # "get_shared_wait")
            => /\ t \notin gets /\ loc[t].ready
               /\ mem[loc[t].inode].version_offset = SlotOf(mem[loc[t].inode].key)
               /\ mem[loc[t].inode].ireg_refid = mem[loc[t].inode].key]_vars

\* Two callers wait with objects for different host inodes; the reply to one
\* has come and set its inode, the reply to the other is still due.
C28_OutOfOrder ==
  \E t, u \in Threads :
    /\ pc[t] = "get_shared_wait" /\ pc[u] = "get_shared_wait"
    /\ mem[loc[t].inode].key # mem[loc[u].inode].key
    /\ loc[t].ready /\ t \notin gets
    /\ mem[loc[t].inode].version_offset = SlotOf(mem[loc[t].inode].key)
    /\ u \in gets /\ ~loc[u].ready
    /\ mem[loc[u].inode].version_offset = 0

\* Object p obtained a slot: a VERSION reply gave it its refid.
HasSlot(p) == mem[p].ireg_refid # 0

\* Thread t finishes an eviction in this step: close, put_shared and free.
Evicts(t) == pc[t] = "unref_evict" /\ pc'[t] # "unref_evict"

\* C29: a PUT record is written exactly once for every evicted inode that
\* obtained a slot, with the refid of its VERSION reply, and none for an
\* inode that obtained no slot nor for one whose refcount is positive: the
\* eviction of an object with a slot adds one PUT of its refid, at refcount 0,
\* and no other step adds a PUT.
C29_SlotAccounting ==
  [][/\ \A t \in Threads :
          Evicts(t) =>
            LET p == loc[t].uptr
            IN /\ mem[p].refcount = 0
               /\ puts' = IF HasSlot(p)
                          THEN [puts EXCEPT ![mem[p].ireg_refid] = @ + 1]
                          ELSE puts
     /\ (\A t \in Threads : ~Evicts(t)) => puts' = puts]_vars

\* The positions at which a handler has an error of lo_do_lookup to reply.
LookupErrPcs == {"lo_do_lookup_ret", "lo_lookup_err", "lo_mknod_err", "lo_create_err"}

\* C30: when a handler replies an error, it has closed every file descriptor
\* it opened and freed every object it allocated in the request: it holds
\* none once it has returned, and lo_do_lookup has closed its candidate fd
\* where it returns an error.
C30_ReleasedOnError ==
  \A t \in Threads :
    /\ (Returned(t) /\ Len(replies[t]) = 1
          /\ replies[t][1].kind = "err" /\ replies[t][1].err # 0)
         => loc[t].held = 0
    /\ (pc[t] \in LookupErrPcs /\ loc[t].err # 0) => loc[t].newfd = 0

\* C31: a setattr that has changed a host attribute of its inode has bumped
\* the version of the inode before its reply, also when a later attribute
\* group failed after an earlier one was applied: a setattr that replies
\* without a bump has left the host object as it was.
C31_SetattrBumps ==
  \A t \in Threads :
    (Returned(t) /\ req[t].op = "setattr" /\ loc[t].changed
       /\ mem[loc[t].inode].version_offset # 0)
      => Bumped(t, loc[t].inode)

\* The child that thread t's unlink, rmdir or rename is to take from its
\* parent: what lookup_name returned for it.
ChildOf(t) == IF req[t].op = "rename" THEN loc[t].oldinode ELSE loc[t].inode

\* Thread t's request has left versions, refcounts and the table as they
\* were when it came.
Untouched(t) ==
  /\ version_table = req[t].vstart
  /\ \A p \in Ptrs : mem[p].refcount = req[t].rstart[p]
  /\ lo_inodes = req[t].tstart

\* Thread t is about to make, or has made, the host call of its unlink,
\* rmdir or rename.
PastLookupName(t) ==
  \/ pc[t] \in {"lo_unlink_do", "lo_unlink_unref", "lo_rename_unref_old"}
  \/ pc[t] = "lo_rename_do" /\ loc[t].oldinode # NULL

\* No child in the table: the handler has replied EIO and touched nothing.
\* Else the child is an object of the table that the handler holds.
NoChildNoCall ==
  \A t \in Threads :
    /\ (Returned(t) /\ req[t].op \in {"unlink", "rmdir"} /\ loc[t].inode = NULL)
         => replies[t] = <<FailReply(EIO, "before")>> /\ Untouched(t)
    /\ (Returned(t) /\ req[t].op = "rename" /\ loc[t].oldinode = NULL)
         => replies[t] = <<ErrReply(EIO)>> /\ Untouched(t)
    /\ PastLookupName(t)
         => ChildOf(t) \in lo_inodes /\ mem[ChildOf(t)].refcount > 0

\* The host tree changes in a step of unlink, rmdir or rename only when the
\* handler holds the child, an object of the table with the (dev, ino) of the
\* name, and a handler that replies for want of a child changes nothing of
\* the host.
HostCallWithChild ==
  \A t \in Threads :
    (pc[t] # pc'[t] /\ req'[t].op \in {"unlink", "rmdir", "rename"})
      => /\ hostVars' # hostVars
              => /\ PastLookupName(t)
                 /\ mem[ChildOf(t)].key = Resolve(lo_fd(req[t].parent), req[t].name)
         /\ (pc'[t] = "done" /\ ChildOf(t)' = NULL) => hostVars' = hostVars

\* C32: unlink, rmdir and rename make their host call only for a child whose
\* (dev, ino) is in the inode table; when lookup_name finds none, the reply
\* is EIO, the host tree, the versions and the refcounts are as before, and a
\* rename has released the reference it took on an existing target.
C32_ChildInTable == []NoChildNoCall /\ [][HostCallWithChild]_vars

\* A rename has found no source in the table and a target in it, and has
\* returned.
C32_TargetOnly ==
  \E t \in Threads :
    /\ Returned(t) /\ req[t].op = "rename"
    /\ loc[t].oldinode = NULL /\ loc[t].newinode # NULL
    /\ replies[t] = <<ErrReply(EIO)>>

\* The positions at which a thread writes to the registry's socket, waits on
\* the semaphore of its GET, or closes an inode fd.
OutsidePcs == {"lo_do_lookup_new", "get_shared_wait", "unref_evict"}

\* A thread holds the mutex inside the critical sections and nowhere else:
\* not when it has returned, not where it calls pthread_mutex_lock, not at
\* the socket, the semaphore or close.
HeldInSection ==
  /\ mutex \in Threads \cup {0}
  /\ \A t \in Threads :
       /\ (mutex = t) <=> (pc[t] \in LockedPcs)
       /\ pc[t] \in OutsidePcs \cup LockPcs \cup {"idle", "done"} => mutex # t

\* A step that changes the refcount of an object or the table is a step of
\* the thread that holds the mutex, and the thread that has locked it is the
\* one that unlocks it.
UnderMutex ==
  /\ ((\E p \in Ptrs : mem[p].alloc /\ mem'[p].alloc
                          /\ mem'[p].refcount # mem[p].refcount)
       \/ lo_inodes' # lo_inodes)
        => mutex # 0 /\ pc'[mutex] # pc[mutex] /\ mutex' = 0
  /\ (mutex # 0 /\ mutex' # mutex) => mutex' = 0 /\ pc'[mutex] # pc[mutex]
  /\ (mutex = 0 /\ mutex' # 0) => pc[mutex'] \in LockPcs /\ pc'[mutex'] \in LockedPcs

====
